---- MODULE Spec2Model ----
(***************************************************************************)
(* kors_async: the channel dispatch core (ChannelImpl), the Channel        *)
(* facade, the QueuePool pump and the Asyncable back-links, as a state     *)
(* machine.                                                                *)
(*                                                                         *)
(* src/async/internal/channelimpl.h holds two definitions of ChannelImpl:  *)
(*   impl = 1  lines 44-517   staging lists pendingToAdd / pendingToRemove *)
(*   impl = 2  lines 562-888  receiversIteration flag, disconnectReceiver  *)
(*                            and disableReceiver, driven by               *)
(*                            Channel::disconnect of src/async/channel.h   *)
(* A behaviour runs one of the two from its first state on: Spec runs the   *)
(* first, SpecBoth either.                                                 *)
(*                                                                         *)
(* Threads take steps: a dispatch pass is a begin step, one step for each  *)
(* receiver of the list, and an end step; the pump is a step for each      *)
(* message.  A callback runs inside the step of its receiver.              *)
(***************************************************************************)
EXTENDS Integers, Sequences, FiniteSets, TLC

\* ------------------------------------------------------------------ bounds
MaxSends == 2
MaxRecs == 2
MaxFlipRecs == 3
MaxQueue == 2
MaxOps == 4
MaxCopies == 2
MaxCalls == 2

\* ------------------------------------------------------------- the universe
Threads == {"A", "B"}
Subs == {"s1", "s2"}
NoSub == "null"
NoThread == "noth"
SetOnce == "SetOnce"
AsyncSet == "AsyncSet"
Modes == {SetOnce, AsyncSet}
\* what a callback does after it has stored the value it received
\*   rec     nothing more
\*   reset   resetOnReceive(its own subscriber)
\*   reset2  the same, twice in a row
\*   sub     onReceive(the other subscriber, "rec")
\*   disc    resetOnReceive(the other subscriber)
\*   kill    destroys the other subscriber
\*   send    sends the next value on the channel, unless it runs inside a send
\*           that a callback made
\*   flip    onReceive(the other subscriber, "f1"), resetOnReceive(the other
\*           subscriber), onReceive(the other subscriber, "f2")
\*   f1, f2  nothing more
Callbacks == {"rec", "reset", "reset2", "sub", "disc", "kill"}
Other(s) == IF s = "s1" THEN "s2" ELSE "s1"
\* the registrations the threads make, <<thread, subscriber, callback>>: the
\* subscribers on A (s1 with any callback), an anonymous receiver on B
Registrations ==
    {<<"A", "s1", f>> : f \in Callbacks} \cup {<<"A", "s2", "rec">>, <<"B", NoSub, "rec">>}

VARIABLES
    tt,        \* the thread table of a channel (m_threads, m_thcount, m_thmutex)
               \* with the calls in progress, statement by statement
    qp,        \* the QueuePool with its calls in progress, statement by statement
    impl,      \* which definition of ChannelImpl the behaviour runs
    conf,      \* the sizes of the slot arrays: of m_threads of the channel
               \* (max_threads) and of m_threads of the QueuePool (MAX_THREADS)
    recs,      \* heap of Receiver records, by allocation order
    tables,    \* mainCh.m_threads: the non-null slots, in slot order
    count,     \* mainCh.m_enabledReceiversCount
    conn,      \* Asyncable connection entry for mainCh: its thread, or NoThread
    alive,     \* the Asyncable has not been destroyed
    unsub,     \* per subscriber: "no", or who disconnected it last: "own" (its
               \* registration thread) or "other"
    pool,      \* QueuePool::m_threads: the non-null slots, in slot order
    dch,       \* Channel::Data::disconnectCh (impl = 2)
    asserts,   \* the assertions that would have failed in a debug build, and
               \* other things to remember of the behaviour
    got,       \* per record: the values its callback was invoked with, and where
    pass,      \* per thread: the dispatch pass it is in
    pump,      \* per thread: the processMessages call it is in
    sends,     \* per send (its value is its number): what the claims need of it
    ncalls,    \* number of calls (onReceive, disconnect, destroy, send) the threads made
    copies,    \* the Channel objects, in creation order: the Data each one points at
    async,     \* the Async singleton: m_queues; and the calls made and the calls run
    promise    \* the Promise whose resolveCh the channel is, when there is one

\* every variable but qp
coarse == <<qp, impl, conf, copies, async, promise, recs, tables, count, conn, alive, unsub, pool, dch, asserts, got, pass, pump, sends, ncalls>>

rest == <<tt, impl, conf, copies, async, promise, recs, tables, count, conn, alive, unsub, pool, dch, asserts, got, pass, pump, sends, ncalls>>

vars == <<tt, qp, impl, conf, copies, async, promise, recs, tables, count, conn, alive, unsub, pool, dch, asserts, got, pass, pump, sends, ncalls>>

\* ------------------------------------------------------------------ helpers
FirstNull(slots) ==
    IF \E i \in DOMAIN slots : ~slots[i].made
    THEN CHOOSE i \in DOMAIN slots : ~slots[i].made /\ \A j \in 1..(i - 1) : slots[j].made
    ELSE 0

FirstIdx(s, Test(_)) ==
    IF \E i \in 1..Len(s) : Test(s[i])
    THEN CHOOSE i \in 1..Len(s) : Test(s[i]) /\ \A j \in 1..(i - 1) : ~Test(s[j])
    ELSE 0

Remove(s, i) == SubSeq(s, 1, i - 1) \o SubSeq(s, i + 1, Len(s))

Range(s) == {s[i] : i \in 1..Len(s)}

Occurrences(s, Test(_)) == Cardinality({i \in 1..Len(s) : Test(s[i])})

\* F of the value of x: x is evaluated once, however often F reads it
With(x, F(_)) == CHOOSE y \in {F(v) : v \in {x}} : TRUE

\* the part of the state an operation of the library reads and writes
World == [recs |-> recs, tables |-> tables, count |-> count, conn |-> conn,
          alive |-> alive, unsub |-> unsub, pool |-> pool, dch |-> dch, asserts |-> asserts, got |-> got,
          async |-> async]

Commit(w) ==
    /\ recs' = w.recs
    /\ tables' = w.tables
    /\ count' = w.count
    /\ conn' = w.conn
    /\ alive' = w.alive
    /\ unsub' = w.unsub
    /\ pool' = w.pool
    /\ dch' = w.dch
    /\ asserts' = w.asserts
    /\ got' = w.got
    /\ async' = w.async

\* ------------------------------------------------- Asyncable (back-links)
\* One connection entry for a connectable; the entry keeps the thread of the
\* first async_connect.
async_connect(w, s, th) ==
    [w EXCEPT !.conn[s] = IF @ = NoThread THEN th ELSE @]

async_disconnect(w, s) == [w EXCEPT !.conn[s] = NoThread]

\* the registration thread of the entry; a default thread id when there is none
async_connectThread(w, s) == w.conn[s]

\* ------------------------------------------------------ Queue and QueuePool
CallMsg(v) == [kind |-> "call", val |-> v, sub |-> NoSub]
DiscMsg(s) == [kind |-> "disc", val |-> 0, sub |-> s]

NewQueueData(receiveTh) == [receiveTh |-> receiveTh, q |-> <<>>]

\* a send that puts the message in front of the waiting ones
QueueSend_Front(q, msg) == <<msg>> \o q

\* Port::send: the message goes to the tail of the ring
QueueSend(q, msg) == Append(q, msg)

Port(ch, sendTh, receiveTh, side) ==
    [ch |-> ch, sendTh |-> sendTh, receiveTh |-> receiveTh, side |-> side]

\* QueuePool::regPort, run as one step: the first slot that is th's or has no
\* ports takes the port, otherwise the first null slot becomes th's.
regPort(p, th, port) ==
    LET i == FirstIdx(p, LAMBDA sl : sl.threadId = th \/ sl.ports = <<>>)
    IN IF i = 0 /\ Len(p) >= conf.MAX_THREADS
       THEN p
       ELSE IF i = 0
       THEN Append(p, [threadId |-> th, locked |-> FALSE, ports |-> <<port>>])
       ELSE [p EXCEPT ![i] = [threadId |-> th, locked |-> FALSE,
                              ports |-> Append(p[i].ports, port)]]

\* ------------------------------------------------ ChannelImpl, impl = 1
NewThreadData(th) ==
    [threadId |-> th, receiversIteration |-> FALSE, receivers |-> <<>>,
     pendingToAdd |-> <<>>, pendingToRemove |-> <<>>, queues |-> <<>>]

\* the table threadData gives thread th: its slot, or else the dummy, which
\* the model keeps behind the slots once a thread has been given it
TIdx(ts, th) ==
    IF FirstIdx(ts, LAMBDA td : td.threadId = th) # 0
    THEN FirstIdx(ts, LAMBDA td : td.threadId = th)
    ELSE FirstIdx(ts, LAMBDA td : td.threadId = NoThread)

\* the slots of m_threads that are taken
Slots(ts) == SelectSeq(ts, LAMBDA td : td.threadId # NoThread)

\* threadData: the slot of the thread, or the first free slot; with no slot
\* left, assert(false && "thread pool exhausted") and, the assertion compiled
\* out, the static dummy
threadData(w, thId) ==
    IF TIdx(w.tables, thId) # 0 THEN w
    ELSE IF Len(w.tables) < conf.max_threads
    THEN [w EXCEPT !.tables = Append(@, NewThreadData(thId))]
    ELSE [w EXCEPT !.tables = Append(@, NewThreadData(NoThread)),
                   !.asserts = @ \cup {"thread pool exhausted"}]

\* the first record of the list whose receiver is a: the record, or 0
findByAsyncable(w, list, a) ==
    LET i == FirstIdx(list, LAMBDA r : w.recs[r].receiver = a)
    IN IF i = 0 THEN 0 ELSE list[i]

NewReceiver(s, f, th) ==
    [enabled |-> TRUE, receiver |-> s, callback |-> f, freed |-> FALSE,
     sub |-> s, th |-> th, born |-> 0, via |-> 0]

\* addReceiver that replaces the callback of an existing record in any mode
addReceiver_Replace(w, th, receiver, f, mode) ==
    LET td == w.tables[TIdx(w.tables, th)]
        inList == IF receiver = NoSub THEN 0 ELSE findByAsyncable(w, td.receivers, receiver)
        r == IF receiver = NoSub THEN 0
             ELSE IF inList # 0 THEN inList
             ELSE findByAsyncable(w, td.pendingToAdd, receiver)
        id == Len(w.recs) + 1
        w1 == [w EXCEPT !.recs = Append(@, NewReceiver(receiver, f, th)),
                        !.got = Append(@, <<>>),
                        !.tables[TIdx(w.tables, th)].pendingToAdd = Append(@, id)]
    IN IF r # 0
       THEN [w |-> [w EXCEPT !.recs[r].callback = f,
                             !.asserts = IF mode = SetOnce THEN @ \cup {"SetOnce"} ELSE @],
             need |-> FALSE]
       ELSE [w |-> IF receiver = NoSub THEN w1 ELSE async_connect(w1, receiver, th),
             need |-> TRUE]

addReceiver(w, th, receiver, f, mode) ==
    LET td == w.tables[TIdx(w.tables, th)]
        inList == IF receiver = NoSub THEN 0 ELSE findByAsyncable(w, td.receivers, receiver)
        r == IF receiver = NoSub THEN 0
             ELSE IF inList # 0 THEN inList
             ELSE findByAsyncable(w, td.pendingToAdd, receiver)
        id == Len(w.recs) + 1
        w1 == [w EXCEPT !.recs = Append(@, NewReceiver(receiver, f, th)),
                        !.got = Append(@, <<>>),
                        !.tables[TIdx(w.tables, th)].pendingToAdd = Append(@, id)]
    IN IF r # 0 /\ mode = SetOnce
       THEN [w |-> [w EXCEPT !.asserts = @ \cup {"SetOnce"}], need |-> FALSE]
       ELSE IF r # 0
       THEN [w |-> [w EXCEPT !.recs[r].callback = f], need |-> FALSE]
       ELSE [w |-> IF receiver = NoSub THEN w1 ELSE async_connect(w1, receiver, th),
             need |-> TRUE]

\* removeReceiver that disables the record and says that nothing was removed
removeReceiver_Silent(w, th, a) ==
    LET ti == TIdx(w.tables, th)
        td == w.tables[ti]
        inList == findByAsyncable(w, td.receivers, a)
        r == IF inList # 0 THEN inList ELSE findByAsyncable(w, td.pendingToAdd, a)
    IN IF r = 0 \/ ~w.recs[r].enabled
       THEN [w |-> w, need |-> FALSE]
       ELSE [w |-> [w EXCEPT !.recs[r].enabled = FALSE,
                             !.recs[r].receiver = NoSub,
                             !.tables[ti].pendingToRemove = Append(@, r)],
             need |-> FALSE]

removeReceiver(w, th, a) ==
    LET ti == TIdx(w.tables, th)
        td == w.tables[ti]
        inList == findByAsyncable(w, td.receivers, a)
        r == IF inList # 0 THEN inList ELSE findByAsyncable(w, td.pendingToAdd, a)
    IN IF r = 0 \/ ~w.recs[r].enabled
       THEN [w |-> w, need |-> FALSE]
       ELSE [w |-> [w EXCEPT !.recs[r].enabled = FALSE,
                             !.recs[r].receiver = NoSub,
                             !.tables[ti].pendingToRemove = Append(@, r)],
             need |-> TRUE]

addPending(w, th) ==
    LET ti == TIdx(w.tables, th)
    IN [w EXCEPT !.tables[ti].receivers = @ \o w.tables[ti].pendingToAdd,
                 !.tables[ti].pendingToAdd = <<>>]

removePending(w, th) ==
    LET ti == TIdx(w.tables, th)
        td == w.tables[ti]
        gone == Range(td.pendingToRemove) \cap Range(td.receivers)
    IN [w EXCEPT !.tables[ti].receivers = SelectSeq(@, LAMBDA r : r \notin gone),
                 !.tables[ti].pendingToRemove = <<>>,
                 !.recs = [r \in DOMAIN @ |->
                             IF r \in gone THEN [@[r] EXCEPT !.freed = TRUE] ELSE @[r]],
                 !.asserts = IF Range(td.pendingToRemove) \subseteq Range(td.receivers)
                             THEN @ ELSE @ \cup {"removePending"}]

\* the start of receiversCall without its addPending
receiversCallBegin_NoMerge(w, th) == removePending(w, th)

\* receiversCall up to its loop, and from the end of the loop on
receiversCallBegin(w, th) == With(addPending(w, th), LAMBDA w1 : removePending(w1, th))

\* the end of receiversCall without its addPending
receiversCallEnd_NoMerge(w, th) == removePending(w, th)

receiversCallEnd(w, th) == With(removePending(w, th), LAMBDA w1 : addPending(w1, th))

onReceive(w, th, receiver, f, mode) ==
    With(threadData(w, th), LAMBDA w1 :
    With(addReceiver(w1, th, receiver, f, mode), LAMBDA res :
        IF res.need THEN [res.w EXCEPT !.count = @ + 1] ELSE res.w))

\* sendToQueue that only sends on a queue it found: the message that makes the
\* queue is lost
sendToQueue_FoundOnly(w, sendTh, receiveTh, msg) ==
    LET si == TIdx(w.tables, sendTh)
        found == FirstIdx(w.tables[si].queues, LAMBDA qd : qd.receiveTh = receiveTh)
    IN IF found # 0 THEN [w EXCEPT !.tables[si].queues[found].q = QueueSend(@, msg)]
       ELSE [w EXCEPT
               !.tables[si].queues = Append(@, NewQueueData(receiveTh)),
               !.pool = regPort(regPort(@, sendTh, Port("main", sendTh, receiveTh, 1)),
                                receiveTh, Port("main", sendTh, receiveTh, 2))]

sendToQueue(w, sendTh, receiveTh, msg) ==
    LET si == TIdx(w.tables, sendTh)
        found == FirstIdx(w.tables[si].queues, LAMBDA qd : qd.receiveTh = receiveTh)
    IN With(IF found # 0 THEN w
            ELSE [w EXCEPT
                    !.tables[si].queues = Append(@, NewQueueData(receiveTh)),
                    !.pool = regPort(regPort(@, sendTh, Port("main", sendTh, receiveTh, 1)),
                                     receiveTh, Port("main", sendTh, receiveTh, 2))],
            LAMBDA w1 :
                LET qi == IF found # 0 THEN found ELSE Len(w1.tables[si].queues)
                IN [w1 EXCEPT !.tables[si].queues[qi].q = QueueSend(@, msg)])

\* the removeReceiver lambda of disconnect, run by thread th
removeReceiverFn(w, th, a) ==
    With(threadData(w, th), LAMBDA w1 :
    With(removeReceiver(w1, th, a), LAMBDA res :
        IF res.need
        THEN [res.w EXCEPT !.count = @ - 1,
                           !.asserts = IF res.w.count - 1 >= 0 THEN @ ELSE @ \cup {"count"}]
        ELSE res.w))

\* disconnect that posts the removal as a message on the registration thread too
disconnectTh_Posted(w, th, a, connectThId) ==
    With(async_disconnect(w, a), LAMBDA w1 :
        With(threadData(w1, th), LAMBDA w2 :
             sendToQueue(w2, th, connectThId, DiscMsg(a))))

disconnectTh(w, th, a, connectThId) ==
    With(async_disconnect(w, a), LAMBDA w1 :
        IF connectThId = th
        THEN removeReceiverFn(w1, th, a)
        ELSE With(threadData(w1, th), LAMBDA w2 :
                  sendToQueue(w2, th, connectThId, DiscMsg(a))))

disconnect(w, th, a) == disconnectTh(w, th, a, async_connectThread(w, a))

disconnectAsyncable(w, th, a, connectThId) == disconnectTh(w, th, a, connectThId)

isConnected(w) == w.count > 0

\* QueuePool::unregPort, run as one step: every slot of th loses the port
unregPort(p, th, port) ==
    [i \in DOMAIN p |->
        IF p[i].threadId = th
        THEN [p[i] EXCEPT !.ports = SelectSeq(@, LAMBDA x : x # port)]
        ELSE p[i]]

\* unregAllQueue: both ports of every queue of every table leave the pool; the
\* unregPort calls remove different ports, so their order does not matter
unregAllQueue(w) ==
    LET qs == UNION {{<<i, k>> : k \in DOMAIN w.tables[i].queues} : i \in DOMAIN w.tables}
        sendTh(x) == w.tables[x[1]].threadId
        receiveTh(x) == w.tables[x[1]].queues[x[2]].receiveTh
        gone == {<<sendTh(x), Port("main", sendTh(x), receiveTh(x), 1)>> : x \in qs}
                \cup {<<receiveTh(x), Port("main", sendTh(x), receiveTh(x), 2)>> : x \in qs}
    IN [w EXCEPT !.pool =
          [i \in DOMAIN @ |->
              [@[i] EXCEPT !.ports = SelectSeq(@, LAMBDA x : <<w.pool[i].threadId, x>> \notin gone)]]]

\* ThreadData::deleteAll: every record of the list is deleted; a record with a
\* receiver first has the receiver drop its connection entry. "dangling
\* receiver" remembers that the receiver had been destroyed before (its
\* destructor, run on another thread, only posted the removal)
deleteAll(w, list) ==
    LET bound == {r \in Range(list) : w.recs[r].receiver # NoSub}
        subs == {w.recs[r].receiver : r \in bound}
    IN [w EXCEPT !.conn = [s \in DOMAIN @ |-> IF s \in subs THEN NoThread ELSE @[s]],
                 !.recs = [r \in DOMAIN @ |->
                             IF r \in Range(list) THEN [@[r] EXCEPT !.freed = TRUE] ELSE @[r]],
                 !.asserts = IF \E s \in subs : ~w.alive[s]
                             THEN @ \cup {"dangling receiver"} ELSE @]

\* clearAll that forgets the staged records
clearAll_LiveOnly(w, ti) ==
    With(deleteAll(w, w.tables[ti].receivers), LAMBDA w1 :
         [w1 EXCEPT !.tables[ti].receivers = <<>>,
                    !.tables[ti].queues = <<>>])

\* ThreadData::clearAll, for the table in slot ti
clearAll(w, ti) ==
    With(deleteAll(w, w.tables[ti].receivers), LAMBDA w1 :
    With(deleteAll(w1, w1.tables[ti].pendingToAdd), LAMBDA w2 :
         [w2 EXCEPT !.tables[ti].receivers = <<>>,
                    !.tables[ti].pendingToAdd = <<>>,
                    !.tables[ti].queues = <<>>]))

RECURSIVE clearTables(_, _)
clearTables(w, ti) ==
    IF ti > Len(w.tables) THEN w ELSE clearTables(clearAll(w, ti), ti + 1)

\* ~ChannelImpl: unregAllQueue, then clearAll and delete for every table of
\* m_threads; the dummy table of an exhausted pool is not in m_threads
ChannelImpl_dtor(w) ==
    With(unregAllQueue(w), LAMBDA w1 :
    With(clearTables([w1 EXCEPT !.tables = Slots(@)], 1), LAMBDA w2 :
         [w2 EXCEPT !.tables = SelectSeq(w.tables, LAMBDA td : td.threadId = NoThread)]))

\* ------------------------------------------------ ChannelImpl, impl = 2
findReceiver(w, receivers, a) == findByAsyncable(w, receivers, a)

\* the new record goes to the end of the live list, also while the list is
\* iterated ("push_back in loop"), also when the subscriber has an enabled record
\* in the list ("bound twice")
onReceive_2(w, th, receiver, f) ==
    With(threadData(w, th), LAMBDA w1 :
        LET ti == TIdx(w1.tables, th)
            id == Len(w1.recs) + 1
        IN With([w1 EXCEPT !.recs = Append(@, NewReceiver(receiver, f, th)),
                           !.got = Append(@, <<>>),
                           !.tables[ti].receivers = Append(@, id),
                           !.count = @ + 1,
                           !.asserts = @ \cup
                               (IF w1.tables[ti].receiversIteration
                                THEN {"push_back in loop"} ELSE {}) \cup
                               (IF \E r \in Range(w1.tables[ti].receivers) :
                                      receiver # NoSub /\ w1.recs[r].receiver = receiver
                                                       /\ w1.recs[r].enabled
                                THEN {"bound twice"} ELSE {})],
                LAMBDA w2 : IF receiver = NoSub THEN w2 ELSE async_connect(w2, receiver, th)))

disconnectReceiver(w, th, a, connectThId) ==
    With(threadData(w, th), LAMBDA w1 :
        LET ti == TIdx(w1.tables, th)
            r == findReceiver(w1, w1.tables[ti].receivers, a)
        IN IF connectThId # th
           THEN [w |-> [w EXCEPT !.asserts = @ \cup {"connectThId"}], ok |-> FALSE]
           ELSE IF w1.tables[ti].receiversIteration
           THEN [w |-> w1, ok |-> FALSE]
           ELSE With(IF r = 0 THEN w1
                     ELSE [w1 EXCEPT
                             !.count = IF w1.recs[r].enabled THEN @ - 1 ELSE @,
                             !.asserts = IF w1.recs[r].enabled /\ w1.count - 1 < 0
                                         THEN @ \cup {"count"} ELSE @,
                             !.recs[r].freed = TRUE,
                             !.tables[ti].receivers = SelectSeq(@, LAMBDA x : x # r)],
                     LAMBDA w2 : [w |-> async_disconnect(w2, a), ok |-> TRUE]))

disableReceiver(w, th, a, connectThId) ==
    With(threadData(w, th), LAMBDA w1 :
        LET ti == TIdx(w1.tables, th)
            r == findReceiver(w1, w1.tables[ti].receivers, a)
        IN IF connectThId # th
           THEN [w EXCEPT !.asserts = @ \cup {"connectThId"}]
           ELSE IF r = 0 THEN w1
           ELSE [w1 EXCEPT !.recs[r].enabled = FALSE,
                           !.count = @ - 1,
                           !.asserts = IF w1.count - 1 < 0 THEN @ \cup {"count"} ELSE @])

disconnectAsyncable_2(w, th, a, connectThId) ==
    With(disconnectReceiver(w, th, a, connectThId), LAMBDA res :
        IF res.ok THEN res.w ELSE disableReceiver(res.w, th, a, connectThId))

\* disconnectCh, a ChannelImpl<const Asyncable*> with one anonymous receiver whose
\* callback is Channel::disconnect: its slots, each with the flag "the receiver
\* is in this table" and the queues of the thread
NewDisconnectTable(th, hasReceiver) ==
    [threadId |-> th, hasReceiver |-> hasReceiver, queues |-> <<>>]

dchThreadData(w, th) ==
    IF TIdx(w.dch.tables, th) # 0 THEN w
    ELSE [w EXCEPT !.dch.tables = Append(@, NewDisconnectTable(th, FALSE))]

\* disconnectCh->onReceive(nullptr, ...) right after its construction
dchCreate(w, th) ==
    [w EXCEPT !.dch = [created |-> TRUE, tables |-> <<NewDisconnectTable(th, TRUE)>>]]

dchSendToQueue(w, sendTh, receiveTh, msg) ==
    LET si == TIdx(w.dch.tables, sendTh)
        found == FirstIdx(w.dch.tables[si].queues, LAMBDA qd : qd.receiveTh = receiveTh)
    IN With(IF found # 0 THEN w
            ELSE [w EXCEPT
                    !.dch.tables[si].queues = Append(@, NewQueueData(receiveTh)),
                    !.pool = regPort(regPort(@, sendTh, Port("disc", sendTh, receiveTh, 1)),
                                     receiveTh, Port("disc", sendTh, receiveTh, 2))],
            LAMBDA w1 :
                LET qi == IF found # 0 THEN found ELSE Len(w1.dch.tables[si].queues)
                IN [w1 EXCEPT !.dch.tables[si].queues[qi].q = QueueSend(@, msg)])

\* disconnectCh->send(SendMode::Queue, a): every table of disconnectCh, the
\* sender's own included, gets the message
dchSendQueue(w, th, a) ==
    With(dchThreadData(w, th), LAMBDA w1 :
        LET ths == [i \in 1..Len(w1.dch.tables) |-> w1.dch.tables[i].threadId]
            RECURSIVE Go(_, _)
            Go(ww, i) ==
                IF i > Len(ths) THEN ww
                ELSE With(dchSendToQueue(ww, th, ths[i], DiscMsg(a)), LAMBDA w2 : Go(w2, i + 1))
        IN Go(w1, 1))

\* Channel::disconnect (resetOnReceive)
Channel_disconnect(w, th, a) ==
    LET connectThId == async_connectThread(w, a)
    IN With(disconnectReceiver(w, th, a, connectThId), LAMBDA res :
           IF res.ok THEN res.w
           ELSE With(disableReceiver(res.w, th, a, connectThId), LAMBDA w1 :
                With(IF w1.dch.created THEN w1 ELSE dchCreate(w1, th), LAMBDA w2 :
                    dchSendQueue(w2, th, a))))

\* ------------------------------------------------------------------- Async
\* (the definition of Async that keeps one Queue for each pair of threads)
AsyncMsg(caller, c) == [kind |-> "async", val |-> c, sub |-> caller]

NewAsyncQueueData(sendTh, receiveTh) ==
    [sendTh |-> sendTh, receiveTh |-> receiveTh, q |-> <<>>, callers |-> {}]

AIdx(qs, sendTh, receiveTh) ==
    FirstIdx(qs, LAMBDA d : d.sendTh = sendTh /\ d.receiveTh = receiveTh)

\* queueData(sendTh, receiveTh, true)
queueData(w, sendTh, receiveTh) ==
    IF AIdx(w.async.queues, sendTh, receiveTh) # 0 THEN w
    ELSE [w EXCEPT
            !.async.queues = Append(@, NewAsyncQueueData(sendTh, receiveTh)),
            !.pool = regPort(regPort(@, sendTh, Port("async", sendTh, receiveTh, 1)),
                             receiveTh, Port("async", sendTh, receiveTh, 2))]

\* QueueData::connect: the caller gets a connection entry for the QueueData
\* when it joins callers
QueueData_connect(w, qi, a) ==
    IF a = NoSub \/ a \in w.async.queues[qi].callers THEN w
    ELSE [w EXCEPT !.async.queues[qi].callers = @ \cup {a}]

\* QueueData::disconnectAsyncable, for every QueueData the Asyncable has an
\* entry for
QueueData_disconnectAsyncable(w, a) ==
    [w EXCEPT !.async.queues = [i \in DOMAIN @ |-> [@[i] EXCEPT !.callers = @ \ {a}]]]

\* the port2 handler of a QueueData that runs the call whatever its caller
asyncHandler_NoCheck(w, t, qi, m) ==
    [w EXCEPT !.async.ran = Append(@, [call |-> m.val, th |-> t,
                                       dead |-> (m.sub # NoSub /\ ~w.alive[m.sub])])]

\* the port2 handler of a QueueData, on thread t: m.func runs, unless the
\* message has a receiver that is not among callers
asyncHandler(w, t, qi, m) ==
    IF m.sub # NoSub /\ m.sub \notin w.async.queues[qi].callers THEN w
    ELSE [w EXCEPT !.async.ran = Append(@, [call |-> m.val, th |-> t,
                                            dead |-> (m.sub # NoSub /\ ~w.alive[m.sub])])]

\* callQueue that runs the call at once when the target is the calling thread
callQueue_InlineSelf(w, th, caller, c, target) ==
    IF target = th
    THEN [w EXCEPT !.async.ran = Append(@, [call |-> c, th |-> th, dead |-> FALSE])]
    ELSE With(queueData(w, th, target), LAMBDA w1 :
         LET qi == AIdx(w1.async.queues, th, target)
         IN With(QueueData_connect(w1, qi, caller), LAMBDA w2 :
                [w2 EXCEPT !.async.queues[qi].q = QueueSend(@, AsyncMsg(caller, c))]))

\* Async::callQueue(caller, func, th) on thread th, for the target thread
callQueue(w, th, caller, c, target) ==
    With(queueData(w, th, target), LAMBDA w1 :
        LET qi == AIdx(w1.async.queues, th, target)
        IN With(QueueData_connect(w1, qi, caller), LAMBDA w2 :
               [w2 EXCEPT !.async.queues[qi].q = QueueSend(@, AsyncMsg(caller, c))]))

\* ---------------------------------------------------------------- callbacks
Target(s) == IF s = NoSub THEN "s1" ELSE Other(s)

\* who disconnects s: its registration thread, or another thread
By(w, th, s) == IF w.conn[s] = th THEN "own" ELSE "other"

\* Channel::onReceive
ApiOnReceive(w, th, s, f, mode) ==
    With(IF impl = 1 THEN onReceive(w, th, s, f, mode) ELSE onReceive_2(w, th, s, f),
         LAMBDA w1 :
            IF s # NoSub /\ Len(w1.recs) > Len(w.recs)
            THEN [w1 EXCEPT !.unsub[s] = "no"] ELSE w1)

\* the two overloads of Channel::onReceive: the one that takes a Callback, and
\* the template that takes any callable, wraps it in a Callback and calls
\* onReceive(receiver, callback), with the default mode
Overloads == {"Callback", "Func"}

Channel_onReceive(w, how, th, s, f, mode) ==
    IF how = "Func" THEN ApiOnReceive(w, th, s, f, SetOnce)
    ELSE ApiOnReceive(w, th, s, f, mode)

\* Channel::resetOnReceive
ApiDisconnect(w, th, s) ==
    With(IF impl = 1 THEN disconnect(w, th, s) ELSE Channel_disconnect(w, th, s),
         LAMBDA w1 :
            [w1 EXCEPT !.unsub[s] = IF w.conn[s] = NoThread THEN @ ELSE By(w, th, s)])

\* ~Asyncable: every connection entry is handed to its connectable
ApiDestroy(w, th, s) ==
    With(IF w.conn[s] = NoThread THEN w
         ELSE IF impl = 1 THEN disconnectAsyncable(w, th, s, w.conn[s])
         ELSE disconnectAsyncable_2(w, th, s, w.conn[s]),
         LAMBDA w1 :
            [QueueData_disconnectAsyncable(w1, s)
                EXCEPT !.alive[s] = FALSE, !.conn[s] = NoThread,
                       !.unsub[s] = IF w.conn[s] = NoThread THEN @ ELSE By(w, th, s)])

\* the loop of receiversCall / sendAuto / the port2 handler: what runs before it
\* and after it
LoopBegin(w, th) ==
    IF impl = 1 THEN receiversCallBegin(w, th)
    ELSE [w EXCEPT !.tables[TIdx(w.tables, th)].receiversIteration = TRUE]

LoopEnd(w, th) ==
    IF impl = 1 THEN receiversCallEnd(w, th)
    ELSE [w EXCEPT !.tables[TIdx(w.tables, th)].receiversIteration = FALSE]

\* a "flip" callback needs room for the two records it registers
RecLimit(w) ==
    IF \E r \in 1..Len(w.recs) : w.recs[r].callback = "flip" THEN MaxFlipRecs ELSE MaxRecs

WithinBounds(w) ==
    /\ Len(w.recs) <= RecLimit(w)
    /\ \A i \in 1..Len(w.tables) : \A k \in 1..Len(w.tables[i].queues) :
           Len(w.tables[i].queues[k].q) <= MaxQueue
    /\ \A i \in 1..Len(w.dch.tables) : \A k \in 1..Len(w.dch.tables[i].queues) :
           Len(w.dch.tables[i].queues[k].q) <= MaxQueue
    /\ \A i \in 1..Len(w.async.queues) : Len(w.async.queues[i].q) <= MaxQueue

\* the records a callback registers remember the send whose pass they were born in
Born(w, w1, v) ==
    [w1 EXCEPT !.recs = [r \in DOMAIN @ |->
                           IF r > Len(w.recs) THEN [@[r] EXCEPT !.born = v] ELSE @[r]]]

\* the body of a callback, after it has stored the value: calls on subscribers
\* that are still alive; a call that would take the model out of its bounds is
\* not made, and "out of bounds" records that
CallbackBody(w, th, r, v) ==
    LET f == w.recs[r].callback
        s == w.recs[r].sub
        o == Target(s)
    IN With(CASE f = "reset" /\ s # NoSub /\ w.alive[s] -> ApiDisconnect(w, th, s)
              [] f = "reset2" /\ s # NoSub /\ w.alive[s] ->
                     With(ApiDisconnect(w, th, s), LAMBDA w1 : ApiDisconnect(w1, th, s))
              [] f = "sub" /\ w.alive[o] ->
                     With(ApiOnReceive(w, th, o, "rec", AsyncSet), LAMBDA w1 : Born(w, w1, v))
              [] f = "disc" /\ w.alive[o] -> ApiDisconnect(w, th, o)
              [] f = "kill" /\ w.alive[o] -> ApiDestroy(w, th, o)
              [] f = "flip" /\ w.alive[o] ->
                     With(ApiOnReceive(w, th, o, "f1", AsyncSet), LAMBDA w1 :
                     With(ApiDisconnect(w1, th, o), LAMBDA w2 :
                     With(ApiOnReceive(w2, th, o, "f2", AsyncSet), LAMBDA w3 :
                          Born(w, w3, v))))
              [] OTHER -> w,
            LAMBDA w1 : IF WithinBounds(w1) THEN w1
                        ELSE [w EXCEPT !.asserts = @ \cup {"out of bounds"}])

\* r->callback(args...) on thread th
Invoke(w, th, r, v) ==
    LET s == w.recs[r].sub
        entry == [val |-> v, th |-> th, f |-> w.recs[r].callback,
                  dead |-> (s # NoSub /\ ~w.alive[s]),
                  unsub |-> IF s = NoSub THEN "no" ELSE w.unsub[s]]
    IN With([w EXCEPT !.got[r] = Append(@, entry)], LAMBDA w1 : CallbackBody(w1, th, r, v))

\* m.func(r) on thread th
RunMsg(w, th, r, m) ==
    IF m.kind = "call" THEN Invoke(w, th, r, m.val)
    ELSE IF w.recs[r].receiver = m.sub THEN removeReceiverFn(w, th, m.sub)
    ELSE w

\* ------------------------------------------------------------------ actions
\* "start" remembers the records that were enabled in the table when a message
\* from a queue was handed to receiversCall
NoPass ==
    [active |-> FALSE, kind |-> "none", msg |-> CallMsg(0), idx |-> 0, end |-> 0, start |-> {}]
NoPump == [active |-> FALSE, slot |-> 0, pidx |-> 0]

Idle(t) == ~pass[t].active /\ ~pump[t].active

EnabledIn(w, th) ==
    LET ti == TIdx(w.tables, th)
    IN IF ti = 0 THEN {}
       ELSE {r \in Range(w.tables[ti].receivers) \cup Range(w.tables[ti].pendingToAdd) :
                w.recs[r].enabled}

\* the Data of the channel the model follows, and a Data made by make_shared
MainData == "m_data"
OtherData == "other"

\* a copy that gets a Data of its own
Channel_copy_Fresh(d) == OtherData

\* Channel(const Channel& ch), operator=: m_data(ch.m_data)
Channel_copy(d) == d

\* the Channel objects through which a call reaches the channel
Handles == {h \in 1..Len(copies) : copies[h] = MainData}

\* the records a call through the Channel object h registers remember h
Via(w, w1, h) ==
    [w1 EXCEPT !.recs = [r \in DOMAIN @ |->
                           IF r > Len(w.recs) THEN [@[r] EXCEPT !.via = h] ELSE @[r]]]

CopyChannel ==
    /\ Len(copies) < MaxCopies
    /\ \E h \in 1..Len(copies) : copies' = Append(copies, Channel_copy(copies[h]))
    /\ UNCHANGED <<tt, qp, impl, conf, promise, async, recs, tables, count, conn, alive, unsub, pool, dch, asserts, got, pass, pump, sends, ncalls>>

OnReceive(t, s, f, mode) ==
    /\ Idle(t)
    /\ ncalls < MaxOps
    /\ ncalls' = ncalls + 1
    /\ s # NoSub => alive[s]
    /\ \E h \in Handles : \E how \in Overloads :
       \E w \in {Via(World, Channel_onReceive(World, how, t, s, f, mode), h)} :
           WithinBounds(w) /\ Commit(w)
    /\ UNCHANGED <<tt, qp, impl, conf, promise, copies, pass, pump, sends>>

\* a message with a value waits in a queue to thread T
InFlight(T) ==
    \E i \in 1..Len(tables) : \E k \in 1..Len(tables[i].queues) :
        /\ tables[i].queues[k].receiveTh = T
        /\ \E j \in 1..Len(tables[i].queues[k].q) : tables[i].queues[k].q[j].kind = "call"

\* resetOnReceive(s) called by thread t outside of a callback; "in flight"
\* remembers that it was the registration thread of s, with a message waiting
Disconnect(t, s) ==
    /\ Idle(t)
    /\ ncalls < MaxOps
    /\ ncalls' = ncalls + 1
    /\ alive[s]
    /\ \E w \in {ApiDisconnect(World, t, s)} :
          /\ WithinBounds(w)
          /\ Commit([w EXCEPT !.asserts = IF conn[s] = t /\ InFlight(t)
                                          THEN @ \cup {"in flight"} ELSE @])
    /\ UNCHANGED <<tt, qp, impl, conf, promise, copies, pass, pump, sends>>

Destroy(t, s) ==
    /\ Idle(t)
    /\ ncalls < MaxOps
    /\ ncalls' = ncalls + 1
    /\ alive[s]
    /\ \E w \in {ApiDestroy(World, t, s)} : WithinBounds(w) /\ Commit(w)
    /\ UNCHANGED <<tt, qp, impl, conf, promise, copies, pass, pump, sends>>

\* a loop that runs over the first table of the channel, whoever runs it
LoopTable_First(ts, t) == 1

\* the table the loop of thread t runs over: threadData(this thread)
LoopTable(ts, t) == TIdx(ts, t)

\* a send that never takes the early exit
sendFastPath_Never(w) == FALSE

\* send: if (!isConnected()) return
sendFastPath(w) == ~isConnected(w)

\* send(SendMode::Auto, v) up to the loop of receiversCall
SendBegin(t) ==
    /\ Idle(t)
    /\ Len(sends) < MaxSends
    /\ ncalls < MaxOps
    /\ ncalls' = ncalls + 1
    /\ \E h \in Handles :
       sends' = Append(sends, [th |-> t, mode |-> "auto", via |-> h,
                               start |-> EnabledIn(World, t),
                               all |-> {r \in 1..Len(recs) : recs[r].enabled},
                               connected |-> isConnected(World),
                               done |-> sendFastPath(World)])
    /\ IF sendFastPath(World)
       THEN UNCHANGED <<async, recs, tables, count, conn, alive, unsub, pool, dch, asserts, got, pass>>
       ELSE \E w \in {LoopBegin(threadData(World, t), t)} :
               /\ Commit(w)
               /\ pass' = [pass EXCEPT ![t] =
                     [active |-> TRUE, kind |-> "send", msg |-> CallMsg(Len(sends) + 1),
                      idx |-> 1, end |-> Len(w.tables[LoopTable(w.tables, t)].receivers),
                      start |-> {}]]
    /\ UNCHANGED <<tt, qp, impl, conf, promise, copies, pump>>

\* a loop that calls every record of the list, enabled or not
NextEnabled_All(t, i) ==
    IF i <= pass[t].end THEN i ELSE 0

\* the next record of the list, from position i on, that the loop will call
NextEnabled(t, i) ==
    LET rs == SubSeq(tables[LoopTable(tables, t)].receivers, 1, pass[t].end)
    IN IF \E k \in i..Len(rs) : recs[rs[k]].enabled
       THEN CHOOSE k \in i..Len(rs) :
                recs[rs[k]].enabled /\ \A j \in i..(k - 1) : ~recs[rs[j]].enabled
       ELSE 0

\* the callback of record r, called for message m, sends a value itself
Resends(r, m) == recs[r].callback = "send" /\ m.kind = "call" /\ Len(sends) < MaxSends

\* one turn of the loop over receivers that finds its record enabled
PassStep(t) ==
    /\ pass[t].active
    /\ \E k \in {NextEnabled(t, pass[t].idx)} :
          /\ k # 0
          /\ \E r \in {tables[LoopTable(tables, t)].receivers[k]} :
                /\ ~Resends(r, pass[t].msg)
                /\ \E w \in {RunMsg(World, t, r, pass[t].msg)} :
                      /\ WithinBounds(w)
                      /\ Commit(w)
                      /\ pass' = [pass EXCEPT ![t].idx = k + 1]
    /\ UNCHANGED <<tt, qp, impl, conf, promise, copies, pump, sends, ncalls>>

\* the other tables of the channel, in slot order, get the message
SendToOthers(w, t, ths, msg) ==
    LET RECURSIVE Go(_, _)
        Go(ww, i) ==
            IF i > Len(ths) THEN ww
            ELSE IF ths[i] = t THEN Go(ww, i + 1)
            ELSE With(sendToQueue(ww, t, ths[i], msg), LAMBDA w1 : Go(w1, i + 1))
    IN Go(w, 1)

TableThreads(w) == [i \in 1..Len(Slots(w.tables)) |-> Slots(w.tables)[i].threadId]

\* the loop of a receiversCall that runs inside a callback: every record of
\* the list that is enabled at its turn is called with the value
NestedLoop(w, th, v) ==
    LET rs == w.tables[TIdx(w.tables, th)].receivers
        RECURSIVE Go(_, _)
        Go(ww, i) ==
            IF i > Len(rs) THEN ww
            ELSE IF ww.recs[rs[i]].enabled
            THEN With(Invoke(ww, th, rs[i], v), LAMBDA w1 : Go(w1, i + 1))
            ELSE Go(ww, i + 1)
    IN Go(w, 1)

\* send(SendMode::Auto, v) of the first definition, called on thread th from
\* inside a callback: the early exit, or receiversCall on the table of th, then
\* the queues to the other tables
sendAuto_Nested(w, th, v) ==
    IF sendFastPath(w) THEN w
    ELSE With(receiversCallBegin(threadData(w, th), th), LAMBDA w1 :
         With(NestedLoop(w1, th, v), LAMBDA w2 :
         With(receiversCallEnd(w2, th), LAMBDA w3 :
              SendToOthers(w3, th, TableThreads(w3), CallMsg(v)))))

\* one turn of the loop whose callback sends a value on the channel.  When
\* the receiversCall inside has changed the list the loop is running over, the
\* iterators of the loop are invalid: it may go on anywhere in the list
ReentrantStep(t) ==
    /\ pass[t].active
    /\ NextEnabled(t, pass[t].idx) # 0
    /\ \E k \in {NextEnabled(t, pass[t].idx)} :
       \E ti \in {LoopTable(tables, t)} :
       \E r \in {tables[ti].receivers[k]} :
          /\ Resends(r, pass[t].msg)
          /\ \E w0 \in {Invoke(World, t, r, pass[t].msg.val)} :
             \E w \in {sendAuto_Nested(w0, t, Len(sends) + 1)} :
                /\ WithinBounds(w)
                /\ Commit(w)
                /\ sends' = Append(sends, [th |-> t, mode |-> "auto", via |-> 1,
                                           start |-> EnabledIn(w0, t),
                                           all |-> {x \in 1..Len(w0.recs) : w0.recs[x].enabled},
                                           connected |-> isConnected(w0),
                                           done |-> TRUE])
                /\ IF w.tables[ti].receivers = tables[ti].receivers
                   THEN pass' = [pass EXCEPT ![t].idx = k + 1]
                   ELSE \E i \in 1..(Len(w.tables[ti].receivers) + 1) :
                           pass' = [pass EXCEPT ![t].idx = i,
                                                ![t].end = Len(w.tables[ti].receivers)]
    /\ UNCHANGED <<tt, qp, impl, conf, promise, copies, pump, ncalls>>

\* the end of receiversCall; a send goes on to the queues and returns
PassEnd(t) ==
    /\ pass[t].active
    /\ NextEnabled(t, pass[t].idx) = 0
    /\ \E w1 \in {LoopEnd(World, t)} :
          \E w \in {IF pass[t].kind = "send"
                    THEN SendToOthers(w1, t, TableThreads(w1), pass[t].msg)
                    ELSE w1} :
              WithinBounds(w) /\ Commit(w)
    /\ sends' = IF pass[t].kind = "send"
                THEN [sends EXCEPT ![pass[t].msg.val].done = TRUE]
                ELSE sends
    /\ pass' = [pass EXCEPT ![t] = NoPass]
    /\ UNCHANGED <<tt, qp, impl, conf, promise, copies, pump, ncalls>>

\* sendQueue whose loop skips the table of the sender, as the loop of sendAuto does
sendQueue_SkipSelf(w, th, msg) ==
    With(threadData(w, th), LAMBDA w1 : SendToOthers(w1, th, TableThreads(w1), msg))

\* sendQueue: every table of the channel, the sender's own included, gets the
\* message
sendQueue(w, th, msg) ==
    With(threadData(w, th), LAMBDA w1 :
        LET ths == TableThreads(w1)
            RECURSIVE Go(_, _)
            Go(ww, i) ==
                IF i > Len(ths) THEN ww
                ELSE With(sendToQueue(ww, th, ths[i], msg), LAMBDA w2 : Go(w2, i + 1))
        IN Go(w1, 1))

\* send(SendMode::Queue, v)
SendQueue(t) ==
    /\ Idle(t)
    /\ Len(sends) < MaxSends
    /\ ncalls < MaxOps
    /\ ncalls' = ncalls + 1
    /\ sends' = Append(sends, [th |-> t, mode |-> "queue", via |-> 0,
                               start |-> EnabledIn(World, t),
                               all |-> {r \in 1..Len(recs) : recs[r].enabled},
                               connected |-> isConnected(World),
                               done |-> TRUE])
    /\ IF sendFastPath(World)
       THEN UNCHANGED <<async, recs, tables, count, conn, alive, unsub, pool, dch, asserts, got>>
       ELSE \E w \in {sendQueue(World, t, CallMsg(Len(sends) + 1))} :
               WithinBounds(w) /\ Commit(w)
    /\ UNCHANGED <<tt, qp, impl, conf, promise, copies, pump, pass>>

\* ------------------------------------------------------------ close, onClose
\* Channel::onClose(receiver, f, mode) on thread t: closeCh is made when it is
\* missing, and gets the receiver
OnClose(t, s, f, mode) ==
    /\ Idle(t)
    /\ ncalls < MaxOps
    /\ ncalls' = ncalls + 1
    /\ s # NoSub => alive[s]
    /\ \E w \in {ApiOnReceive(World, t, s, f, mode)} : WithinBounds(w) /\ Commit(w)
    /\ UNCHANGED <<tt, qp, impl, conf, promise, copies, pass, pump, sends>>

\* Channel::close() on thread t: if (closeCh) closeCh->send(SendMode::Auto)
Close(t) ==
    /\ recs # <<>>
    /\ SendBegin(t)

\* ------------------------------------------------------------------ Promise
PromiseTypes == {"AsyncByPromise", "AsyncByBody"}

NoPromise == [type |-> "none", th |-> NoThread, body |-> <<>>, late |-> {}]

\* Promise::resolve: m_data->resolveCh.send(SendMode::Auto, args ...), up to the
\* loop of sendAuto, on thread t and in the world w0
Promise_resolve(t, w0) ==
    /\ sends' = Append(sends, [th |-> t, mode |-> "auto", via |-> 1,
                               start |-> EnabledIn(w0, t),
                               all |-> {r \in 1..Len(w0.recs) : w0.recs[r].enabled},
                               connected |-> isConnected(w0),
                               done |-> sendFastPath(w0)])
    /\ IF sendFastPath(w0)
       THEN Commit(w0) /\ UNCHANGED pass
       ELSE \E w \in {LoopBegin(threadData(w0, t), t)} :
               /\ Commit(w)
               /\ pass' = [pass EXCEPT ![t] =
                     [active |-> TRUE, kind |-> "send", msg |-> CallMsg(Len(sends) + 1),
                      idx |-> 1, end |-> Len(w.tables[LoopTable(w.tables, t)].receivers),
                      start |-> {}]]

\* the body of the promise, run on thread t: it calls resolve with a value
PromiseBody(t, w0, where) ==
    /\ promise' = [promise EXCEPT !.body = Append(@, [th |-> t, in |-> where])]
    /\ Promise_resolve(t, w0)

\* a constructor that posts the body whatever the type
MakePromise_Posted(t, type) ==
    /\ Idle(t)
    /\ promise.type = "none"
    /\ ncalls < MaxOps
    /\ ncalls' = ncalls + 1
    /\ \E w \in {callQueue(World, t, NoSub, Len(async.calls) + 1, t)} :
          /\ Commit([w EXCEPT !.async.calls =
                        Append(@, [caller |-> NoSub, from |-> t, to |-> t, body |-> TRUE])])
          /\ promise' = [promise EXCEPT !.type = type, !.th = t]
          /\ UNCHANGED <<pass, sends>>
    /\ UNCHANGED <<tt, qp, impl, conf, copies, pump>>

\* Promise(BodyResolve body, PromiseType type) on thread t: AsyncByPromise
\* posts the body to the constructing thread with Async::call(nullptr, ...),
\* AsyncByBody runs it in the constructor
MakePromise(t, type) ==
    /\ Idle(t)
    /\ promise.type = "none"
    /\ ncalls < MaxOps
    /\ ncalls' = ncalls + 1
    /\ IF type = "AsyncByPromise"
       THEN \E w \in {callQueue(World, t, NoSub, Len(async.calls) + 1, t)} :
               /\ Commit([w EXCEPT !.async.calls =
                             Append(@, [caller |-> NoSub, from |-> t, to |-> t, body |-> TRUE])])
               /\ promise' = [promise EXCEPT !.type = type, !.th = t]
               /\ UNCHANGED <<pass, sends>>
       ELSE \E p \in {[promise EXCEPT !.type = type, !.th = t]} :
               /\ promise' = [p EXCEPT !.body = Append(@, [th |-> t, in |-> "ctor"])]
               /\ Promise_resolve(t, World)
    /\ UNCHANGED <<tt, qp, impl, conf, copies, pump>>

\* the resolution has been sent and the send has returned
Resolved == sends # <<>> /\ sends[1].done

\* Promise::onResolve(receiver, callback) on thread t
OnResolve(t, s, f) ==
    /\ Idle(t)
    /\ promise.type # "none"
    /\ ncalls < MaxOps
    /\ ncalls' = ncalls + 1
    /\ s # NoSub => alive[s]
    /\ \E w \in {ApiOnReceive(World, t, s, f, SetOnce)} :
          /\ WithinBounds(w)
          /\ Commit(w)
          /\ promise' = [promise EXCEPT !.late =
                            IF Resolved THEN @ \cup ((1..Len(w.recs)) \ (1..Len(recs))) ELSE @]
    /\ UNCHANGED <<tt, qp, impl, conf, copies, pass, pump, sends>>

\* the queue a port belongs to
PortTables(w, port) == IF port.ch = "main" THEN w.tables ELSE w.dch.tables

PortQueue(w, port) ==
    LET ts == PortTables(w, port)
        si == TIdx(ts, port.sendTh)
    IN IF port.ch = "async"
       THEN w.async.queues[AIdx(w.async.queues, port.sendTh, port.receiveTh)].q
       ELSE ts[si].queues[FirstIdx(ts[si].queues, LAMBDA qd : qd.receiveTh = port.receiveTh)].q

PopQueue(w, port) ==
    LET ts == PortTables(w, port)
        si == TIdx(ts, port.sendTh)
        qi == FirstIdx(ts[si].queues, LAMBDA qd : qd.receiveTh = port.receiveTh)
    IN IF port.ch = "async"
       THEN [w EXCEPT !.async.queues[AIdx(w.async.queues, port.sendTh, port.receiveTh)].q = Tail(@)]
       ELSE IF port.ch = "main" THEN [w EXCEPT !.tables[si].queues[qi].q = Tail(@)]
       ELSE [w EXCEPT !.dch.tables[si].queues[qi].q = Tail(@)]

HasMessage(port) == port.side = 2 /\ PortQueue(World, port) # <<>>

\* the first port of the slot, from position i on, that has a message: or 0
NextPort(sl, i) ==
    LET ps == pool[sl].ports
    IN IF \E k \in i..Len(ps) : HasMessage(ps[k])
       THEN CHOOSE k \in i..Len(ps) :
                HasMessage(ps[k]) /\ \A j \in i..(k - 1) : ~HasMessage(ps[j])
       ELSE 0

\* the port2 handler of disconnectCh on thread t: its anonymous receiver, when it is
\* in the table of t, runs Channel::disconnect(a)
dchHandler(w, t, m) ==
    With(dchThreadData(w, t), LAMBDA w1 :
        IF ~w1.dch.tables[TIdx(w1.dch.tables, t)].hasReceiver THEN w1
        ELSE With([w1 EXCEPT !.asserts = IF w1.alive[m.sub] THEN @
                                         ELSE @ \cup {"use after free"}],
                  LAMBDA w2 : Channel_disconnect(w2, t, m.sub)))

\* Port::process on port k of the slot: the handler gets the next message; the
\* handler of mainCh starts a pass on the table of the running thread
Process(t, sl, k) ==
    \E port \in {pool[sl].ports[k]} :
    \E m \in {Head(PortQueue(World, port))} :
    \E w0 \in {PopQueue(World, port)} :
       /\ pump' = [pump EXCEPT ![t] = [active |-> TRUE, slot |-> sl, pidx |-> k]]
       /\ IF port.ch = "main"
          THEN \E w \in {LoopBegin(threadData(w0, t), t)} :
                  /\ Commit(w)
                  /\ pass' = [pass EXCEPT ![t] =
                        [active |-> TRUE, kind |-> "msg", msg |-> m, idx |-> 1,
                         end |-> Len(w.tables[LoopTable(w.tables, t)].receivers),
                         start |-> EnabledIn(w, t)]]
                  /\ UNCHANGED <<sends, promise>>
          ELSE IF port.ch = "async" /\ async.calls[m.val].body
          THEN PromiseBody(t, w0, "pump")
          ELSE IF port.ch = "async"
          THEN \E w \in {asyncHandler(w0, t, AIdx(w0.async.queues, port.sendTh, port.receiveTh), m)} :
                  Commit(w) /\ UNCHANGED <<pass, sends, promise>>
          ELSE \E w \in {dchHandler(w0, t, m)} :
                  WithinBounds(w) /\ Commit(w) /\ UNCHANGED <<pass, sends, promise>>

\* processMessages that looks at the first slot of the pool only
PumpBegin_FirstSlot(t) ==
    /\ Idle(t)
    /\ pool # <<>>
    /\ pool[1].threadId = t
    /\ ~pool[1].locked
    /\ NextPort(1, 1) # 0
    /\ Process(t, 1, NextPort(1, 1))
    /\ UNCHANGED <<tt, qp, impl, conf, copies, ncalls>>

\* QueuePool::processMessages(th): the first slot of th, unless it is locked, up
\* to the first message of its ports (a call that finds none changes nothing)
PumpBegin(t) ==
    /\ Idle(t)
    /\ \E sl \in {FirstIdx(pool, LAMBDA x : x.threadId = t)} :
          /\ sl # 0
          /\ ~pool[sl].locked
          /\ \E k \in {NextPort(sl, 1)} : k # 0 /\ Process(t, sl, k)
    /\ UNCHANGED <<tt, qp, impl, conf, copies, ncalls>>

\* after a message: the next message of the same port, or of a later port
PumpStep(t) ==
    /\ pump[t].active
    /\ ~pass[t].active
    /\ \E k \in {NextPort(pump[t].slot, pump[t].pidx)} :
          k # 0 /\ Process(t, pump[t].slot, k)
    /\ UNCHANGED <<tt, qp, impl, conf, copies, ncalls>>

\* no message is left in the ports that remain: processMessages returns
PumpEnd(t) ==
    /\ pump[t].active
    /\ ~pass[t].active
    /\ NextPort(pump[t].slot, pump[t].pidx) = 0
    /\ pump' = [pump EXCEPT ![t] = NoPump]
    /\ UNCHANGED <<tt, qp, impl, conf, promise, copies, async, recs, tables, count, conn, alive, unsub, pool, dch, asserts, got, pass, sends, ncalls>>

\* ------------------------------------ QueuePool, statement by statement
\* The calls of regPort, unregPort and processMessages that run at the same
\* time on several threads, one shared-memory access per step.
PoolSlots == 2
MaxPorts == 3
MaxPoolOps == 6
PoolPorts == 1..MaxPorts

\* a slot of m_threads: nullptr (made = FALSE) or a ThreadData
NullSlot == [made |-> FALSE, threadId |-> NoThread, locked |-> FALSE, ports |-> <<>>]

\* the call a thread is in: th and port are its arguments, i the index of its
\* loop over m_threads, held whether it holds m_mutex, steal whether it takes
\* over a slot without ports; for processMessages cnt is the value read from
\* m_count, j the position in the port list, seen the ports whose process() it
\* called, gone the ports whose unregPort had returned when it began
IdleCall ==
    [op |-> "idle", pc |-> "idle", th |-> NoThread, port |-> 0, i |-> 0, j |-> 0,
     held |-> FALSE, steal |-> FALSE, cnt |-> 0, seen |-> <<>>, gone |-> {},
     quiet |-> FALSE, stamp |-> 0]

\* what the last processMessages of a thread did: the ports it processed, the
\* ports registered under the thread, whether it found the slot locked, and
\* whether no other call ran during it
NoRun == [ran |-> FALSE, seen |-> <<>>, under |-> {}, locked |-> FALSE, quiet |-> FALSE]

\* owner of a port: "none", "entering" (regPort running), the thread it was
\* registered under (regPort has returned), "leaving", "gone" (unregPort has
\* returned)
QpInit ==
    [slots |-> [i \in 1..PoolSlots |-> NullSlot], count |-> 0, mutex |-> NoThread,
     call |-> [t \in Threads |-> IdleCall], owner |-> [p \in PoolPorts |-> "none"],
     nops |-> 0, last |-> [t \in Threads |-> NoRun], flags |-> {}]

\* the call of thread c returns: the scoped_lock, if it holds one, is released
QpReturn(q, c, ow) ==
    [q EXCEPT !.call[c] = IdleCall,
              !.mutex = IF q.call[c].held THEN NoThread ELSE @,
              !.owner[q.call[c].port] = ow]

\* thread c calls regPort(th, port); ports are numbered in the order of their
\* registration
RegCall(c, th) ==
    /\ qp.call[c].op = "idle"
    /\ qp.nops < MaxPoolOps
    /\ \E p \in PoolPorts :
          /\ qp.owner[p] = "none"
          /\ \A o \in 1..(p - 1) : qp.owner[o] # "none"
          /\ qp' = [qp EXCEPT !.call[c] = [IdleCall EXCEPT !.op = "reg", !.pc = "scan",
                                                           !.th = th, !.port = p, !.i = 1],
                              !.owner[p] = "entering",
                              !.nops = @ + 1]
    /\ UNCHANGED rest

\* the head of the loop of regPort: m_threads.at(i) and the branch it takes
RegScan(c) ==
    /\ qp.call[c].op = "reg" /\ qp.call[c].pc = "scan"
    /\ \E f \in {qp.call[c]} :
          qp' = IF f.i > PoolSlots
                THEN QpReturn([qp EXCEPT !.flags = @ \cup {"thread pool exhausted"}], c, f.th)
                ELSE IF ~qp.slots[f.i].made
                THEN [qp EXCEPT !.call[c].pc = "lock"]
                ELSE IF qp.slots[f.i].threadId = f.th
                THEN [qp EXCEPT !.call[c].pc = "setlock", !.call[c].steal = FALSE]
                ELSE IF qp.slots[f.i].ports = <<>>
                THEN [qp EXCEPT !.call[c].pc = "setlock", !.call[c].steal = TRUE]
                ELSE [qp EXCEPT !.call[c].i = @ + 1]
    /\ UNCHANGED rest

\* std::scoped_lock lock(m_mutex): the thread waits while another thread holds
\* the mutex; a thread that holds it already never gets it
RegLock(c) ==
    /\ qp.call[c].op = "reg" /\ qp.call[c].pc = "lock"
    /\ qp.mutex \in {NoThread, c}
    /\ qp' = IF qp.mutex = NoThread
             THEN [qp EXCEPT !.mutex = c, !.call[c].held = TRUE, !.call[c].pc = "recheck"]
             ELSE [qp EXCEPT !.flags = @ \cup {"relock"}, !.call[c].pc = "stuck"]
    /\ UNCHANGED rest

\* under the mutex: the slot is read again; taken meanwhile, regPort calls
\* itself, the lock still held; else the new ThreadData is stored in the slot
RegRecheck(c) ==
    /\ qp.call[c].op = "reg" /\ qp.call[c].pc = "recheck"
    /\ \E f \in {qp.call[c]} :
          qp' = IF qp.slots[f.i].made
                THEN [qp EXCEPT !.call[c].pc = "scan", !.call[c].i = 1]
                ELSE [qp EXCEPT !.slots[f.i] = [made |-> TRUE, threadId |-> f.th,
                                                locked |-> FALSE, ports |-> <<f.port>>],
                                !.call[c].pc = "count"]
    /\ UNCHANGED rest

\* ++m_count, and regPort returns
RegCount(c) ==
    /\ qp.call[c].op = "reg" /\ qp.call[c].pc = "count"
    /\ qp' = QpReturn([qp EXCEPT !.count = @ + 1], c, qp.call[c].th)
    /\ UNCHANGED rest

\* the statements of the two branches for a slot that exists, one per step:
\* locked = true; threadId = th (a slot without ports); ports.push_back(port);
\* locked = false
RegWrite(c) ==
    /\ qp.call[c].op = "reg"
    /\ qp.call[c].pc \in {"setlock", "setid", "push", "unlock"}
    /\ \E f \in {qp.call[c]} :
          qp' = CASE f.pc = "setlock" ->
                       [qp EXCEPT !.slots[f.i].locked = TRUE,
                                  !.call[c].pc = IF f.steal THEN "setid" ELSE "push"]
                  [] f.pc = "setid" ->
                       [qp EXCEPT !.slots[f.i].threadId = f.th, !.call[c].pc = "push"]
                  [] f.pc = "push" ->
                       [qp EXCEPT !.slots[f.i].ports = Append(@, f.port), !.call[c].pc = "unlock"]
                  [] OTHER ->
                       QpReturn([qp EXCEPT !.slots[f.i].locked = FALSE], c, f.th)
    /\ UNCHANGED rest

\* thread c calls unregPort(th, port) for a port registered under th
UnregCall(c, p) ==
    /\ qp.call[c].op = "idle"
    /\ qp.nops < MaxPoolOps
    /\ qp.owner[p] \in Threads
    /\ qp' = [qp EXCEPT !.call[c] = [IdleCall EXCEPT !.op = "unreg", !.pc = "uscan",
                                                     !.th = qp.owner[p], !.port = p, !.i = 1],
                        !.owner[p] = "leaving",
                        !.nops = @ + 1]
    /\ UNCHANGED rest

\* the head of the loop of unregPort
UnregScan(c) ==
    /\ qp.call[c].op = "unreg" /\ qp.call[c].pc = "uscan"
    /\ \E f \in {qp.call[c]} :
          qp' = IF f.i > PoolSlots \/ ~qp.slots[f.i].made
                THEN QpReturn(qp, c, "gone")
                ELSE IF qp.slots[f.i].threadId = f.th
                THEN [qp EXCEPT !.call[c].pc = "ulock"]
                ELSE [qp EXCEPT !.call[c].i = @ + 1]
    /\ UNCHANGED rest

\* locked = true; ports.erase(remove(port)); locked = false, one per step
UnregWrite(c) ==
    /\ qp.call[c].op = "unreg"
    /\ qp.call[c].pc \in {"ulock", "erase", "uunlock"}
    /\ \E f \in {qp.call[c]} :
          qp' = CASE f.pc = "ulock" ->
                       [qp EXCEPT !.slots[f.i].locked = TRUE, !.call[c].pc = "erase"]
                  [] f.pc = "erase" ->
                       [qp EXCEPT !.slots[f.i].ports = SelectSeq(@, LAMBDA x : x # f.port),
                                  !.call[c].pc = "uunlock"]
                  [] OTHER ->
                       [qp EXCEPT !.slots[f.i].locked = FALSE,
                                  !.call[c].pc = "uscan", !.call[c].i = @ + 1]
    /\ UNCHANGED rest

\* the other threads are in no call
OthersIdle(q, t) == \A u \in Threads \ {t} : q.call[u].op = "idle"

\* thread t calls processMessages(): m_count.load()
PmCall(t) ==
    /\ qp.call[t].op = "idle"
    /\ qp.nops < MaxPoolOps
    /\ qp' = [qp EXCEPT !.call[t] = [IdleCall EXCEPT !.op = "pm", !.pc = "pscan", !.th = t,
                                                     !.i = 1, !.cnt = qp.count,
                                                     !.gone = {p \in PoolPorts : qp.owner[p] = "gone"},
                                                     !.quiet = OthersIdle(qp, t),
                                                     !.stamp = qp.nops + 1],
                        !.nops = @ + 1]
    /\ UNCHANGED rest

\* processMessages returns
PmReturn(q, t, lk) ==
    [q EXCEPT !.call[t] = IdleCall,
              !.last[t] = [ran |-> TRUE, seen |-> q.call[t].seen,
                           under |-> {p \in PoolPorts : q.owner[p] = t},
                           locked |-> lk,
                           quiet |-> q.call[t].quiet /\ q.nops = q.call[t].stamp
                                        /\ OthersIdle(q, t)]]

\* the head of the loop of processMessages: the slot of the thread is looked
\* for among the first cnt slots; found locked, the call returns
PmScan(t) ==
    /\ qp.call[t].op = "pm" /\ qp.call[t].pc = "pscan"
    /\ \E f \in {qp.call[t]} :
          qp' = IF f.i > f.cnt \/ ~qp.slots[f.i].made
                THEN PmReturn(qp, t, FALSE)
                ELSE IF qp.slots[f.i].threadId # t
                THEN [qp EXCEPT !.call[t].i = @ + 1]
                ELSE IF qp.slots[f.i].locked
                THEN PmReturn(qp, t, TRUE)
                ELSE [qp EXCEPT !.call[t].pc = "iter", !.call[t].j = 1]
    /\ UNCHANGED rest

\* for (auto& p : thdata->ports) p->process(), one port per step; after the
\* last port of the slot, break
PmIter(t) ==
    /\ qp.call[t].op = "pm" /\ qp.call[t].pc = "iter"
    /\ \E f \in {qp.call[t]} :
          qp' = IF f.j > Len(qp.slots[f.i].ports)
                THEN PmReturn(qp, t, FALSE)
                ELSE [qp EXCEPT !.call[t].seen = Append(@, qp.slots[f.i].ports[f.j]),
                                !.call[t].j = @ + 1]
    /\ UNCHANGED rest

NextPool ==
    \/ \E c \in Threads, th \in Threads : RegCall(c, th)
    \/ \E c \in Threads : RegScan(c) \/ RegLock(c) \/ RegRecheck(c) \/ RegCount(c) \/ RegWrite(c)
    \/ \E c \in Threads, p \in PoolPorts : UnregCall(c, p)
    \/ \E c \in Threads : UnregScan(c) \/ UnregWrite(c)
    \/ \E t \in Threads : PmCall(t) \/ PmScan(t) \/ PmIter(t)

\* ------------------------------------- the thread table, statement by statement
\* threadData (channelimpl.h 253-289) and sendToQueue (297-327) as the calls of
\* several threads interleave: onReceive calls threadData for the calling
\* thread; sendAuto calls it too and then walks m_threads, with sendToQueue
\* for the table of every other thread.
Callers == Threads \cup {"C"}

TableSlots == 3
MaxTableOps == 4

NullTable == [made |-> FALSE, threadId |-> NoThread, queues |-> <<>>]

\* a call: the statement it is at, the loop index, the m_thcount it has loaded,
\* the slot threadData returned, the receiver thread of the sendToQueue to come
IdleTable == [op |-> "idle", pc |-> "idle", i |-> 0, cnt |-> 0, slot |-> 0, recv |-> NoThread]

TtInit ==
    [m_threads |-> [i \in 1..TableSlots |-> NullTable],
     m_thcount |-> 0,
     m_thmutex |-> NoThread,
     call |-> [c \in Callers |-> IdleTable],
     nops |-> 0,
     flags |-> {}]

\* thread c calls onReceive or send(Auto): both start with threadData(c)
TdCall(c, o) ==
    /\ tt.call[c].op = "idle"
    /\ tt.nops < MaxTableOps
    /\ tt' = [tt EXCEPT !.call[c] = [IdleTable EXCEPT !.op = o, !.pc = "load"],
                        !.nops = @ + 1]
    /\ UNCHANGED coarse

\* size_t count = m_thcount.load()
TdLoad(c) ==
    /\ tt.call[c].pc = "load"
    /\ tt' = [tt EXCEPT !.call[c].cnt = tt.m_thcount, !.call[c].i = 1, !.call[c].pc = "scan"]
    /\ UNCHANGED coarse

\* threadData has its table: onReceive goes on in the table, which no other
\* thread touches; sendAuto goes on to its loop over m_threads
TdReturn(t, c, k, known) ==
    IF t.call[c].op = "send"
    THEN [t EXCEPT !.call[c].slot = k, !.call[c].cnt = known, !.call[c].i = 1,
                   !.call[c].pc = "loop"]
    ELSE [t EXCEPT !.call[c] = IdleTable]

\* one turn of the loop over the first count slots, without the lock
TdScan(c) ==
    /\ tt.call[c].pc = "scan"
    /\ \E f \in {tt.call[c]} :
          tt' = IF f.i > f.cnt THEN [tt EXCEPT !.call[c].pc = "lock"]
                ELSE IF ~tt.m_threads[f.i].made
                THEN [tt EXCEPT !.flags = @ \cup {"null below count"}, !.call[c].i = f.i + 1]
                ELSE IF tt.m_threads[f.i].threadId = c
                THEN TdReturn(tt, c, f.i, f.cnt)
                ELSE [tt EXCEPT !.call[c].i = f.i + 1]
    /\ UNCHANGED coarse

\* a lock that lets everyone in
TdLock_Open(c) ==
    /\ tt.call[c].pc = "lock"
    /\ tt' = [tt EXCEPT !.m_thmutex = c, !.call[c].pc = "null"]
    /\ UNCHANGED coarse

\* std::scoped_lock lock(m_thmutex); "contended" remembers that another thread
\* was creating its table at the time
TdLock(c) ==
    /\ tt.call[c].pc = "lock"
    /\ tt.m_thmutex = NoThread
    /\ tt' = [tt EXCEPT !.m_thmutex = c, !.call[c].pc = "null",
                        !.flags = IF \E d \in Callers \ {c} : tt.call[d].pc = "lock"
                                  THEN @ \cup {"contended"} ELSE @]
    /\ UNCHANGED coarse

\* under the mutex: the first null slot gets the new ThreadData, its threadId
\* set; with no null slot the mutex is released and the static dummy returned
TdPublish(c) ==
    /\ tt.call[c].pc = "null"
    /\ \E k \in {FirstNull(tt.m_threads)} :
          tt' = IF k = 0
                THEN [TdReturn(tt, c, 0, tt.call[c].cnt)
                         EXCEPT !.m_thmutex = NoThread,
                                !.flags = @ \cup {"thread pool exhausted"}]
                ELSE [tt EXCEPT !.m_threads[k] = [made |-> TRUE, threadId |-> c, queues |-> <<>>],
                                !.call[c].i = k, !.call[c].pc = "count"]
    /\ UNCHANGED coarse

\* ++m_thcount; return *m_threads[i], which releases the mutex
TdCount(c) ==
    /\ tt.call[c].pc = "count"
    /\ tt' = [TdReturn(tt, c, tt.call[c].i, tt.m_thcount + 1)
                 EXCEPT !.m_thcount = tt.m_thcount + 1,
                        !.m_thmutex = NoThread]
    /\ UNCHANGED coarse

\* sendToQueue(sendThdata, receiveTh, msg): the queue for receiveTh is looked
\* for in the table of the sender and made when there is none; n counts the
\* messages sent on it, up to 2
TableSendToQueue(t, k, receiveTh) ==
    LET found == FirstIdx(t.m_threads[k].queues, LAMBDA qd : qd.receiveTh = receiveTh)
    IN IF k = 0 THEN [t EXCEPT !.flags = @ \cup {"dummy"}]
       ELSE IF found # 0
       THEN [t EXCEPT !.m_threads[k].queues[found].n = IF @ < 2 THEN @ + 1 ELSE @]
       ELSE [t EXCEPT !.m_threads[k].queues = Append(@, [receiveTh |-> receiveTh, n |-> 1])]

\* one turn of the loop of sendAuto over m_threads, which reads the slots
\* without the lock and up to the first null one. A slot beyond the count the
\* thread has loaded may be read while its creator is still at work: the read
\* is not ordered after the writes of the creator, so the pointer may be seen
\* and the threadId behind it not yet (the default id)
TdLoop(c) ==
    /\ tt.call[c].pc = "loop"
    /\ \E f \in {tt.call[c]} :
          IF f.i > TableSlots \/ ~tt.m_threads[f.i].made
          THEN tt' = [tt EXCEPT !.call[c] = IdleTable]
          ELSE \E id \in {tt.m_threads[f.i].threadId}
                          \cup (IF f.i > f.cnt THEN {NoThread} ELSE {}) :
                  tt' = IF id = c THEN [tt EXCEPT !.call[c].i = f.i + 1]
                        ELSE [TableSendToQueue(tt, f.slot, id) EXCEPT !.call[c].i = f.i + 1]
    /\ UNCHANGED coarse

NextTable ==
    \/ \E c \in Callers, o \in {"onReceive", "send"} : TdCall(c, o)
    \/ \E c \in Callers : TdLoad(c) \/ TdScan(c) \/ TdLock(c) \/ TdPublish(c) \/ TdCount(c)
    \/ \E c \in Callers : TdLoop(c)

\* slot arrays with room for every thread; the pool has a slot for the default
\* thread id too, which a disconnect of an unconnected subscriber posts to
Roomy == [max_threads |-> Cardinality(Threads), MAX_THREADS |-> Cardinality(Threads) + 1]

\* slot arrays with one slot less than there are threads: of the channel, or
\* of the pool
Tight ==
    {[max_threads |-> Cardinality(Threads) - 1, MAX_THREADS |-> Cardinality(Threads) + 1],
     [max_threads |-> Cardinality(Threads), MAX_THREADS |-> Cardinality(Threads) - 1]}

InitWith(c) ==
    /\ conf = c
    /\ qp = QpInit
    /\ tt = TtInit
    /\ impl \in {1, 2}
    /\ recs = <<>>
    /\ tables = <<>>
    /\ count = 0
    /\ conn = [s \in Subs |-> NoThread]
    /\ alive = [s \in Subs |-> TRUE]
    /\ unsub = [s \in Subs |-> "no"]
    /\ pool = <<>>
    /\ dch = [created |-> FALSE, tables |-> <<>>]
    /\ asserts = {}
    /\ got = <<>>
    /\ pass = [t \in Threads |-> NoPass]
    /\ pump = [t \in Threads |-> NoPump]
    /\ sends = <<>>
    /\ ncalls = 0
    /\ copies = <<MainData>>
    /\ async = [queues |-> <<>>, calls |-> <<>>, ran |-> <<>>]
    /\ promise = NoPromise

Next ==
    \/ \E reg \in Registrations, m \in Modes :
          OnReceive(reg[1], reg[2], reg[3], m)
    \/ \E t \in Threads, s \in Subs : Disconnect(t, s)
    \/ \E t \in Threads, s \in Subs : Destroy(t, s)
    \/ \E t \in Threads : SendBegin(t)
    \/ \E t \in Threads : PassStep(t)
    \/ \E t \in Threads : PassEnd(t)
    \/ \E t \in Threads : PumpBegin(t)
    \/ \E t \in Threads : PumpStep(t)
    \/ \E t \in Threads : PumpEnd(t)

Init == InitWith(Roomy)

\* the first definition of ChannelImpl
InitFirst == Init /\ impl = 1

\* the first definition, with more threads than slots
InitTight == \E c \in Tight : InitWith(c) /\ impl = 1

SpecTight == InitTight /\ [][Next]_vars

\* the QueuePool alone, its calls running at the same time on the threads
SpecPool == InitFirst /\ [][NextPool]_vars

\* the QueuePool alone, one call at a time: a call begins when no other runs
RegCallSeq(c, th) == OthersIdle(qp, c) /\ RegCall(c, th)

UnregCallSeq(c, p) == OthersIdle(qp, c) /\ UnregCall(c, p)

PmCallSeq(t) == OthersIdle(qp, t) /\ PmCall(t)

NextPoolSeq ==
    \/ \E c \in Threads, th \in Threads : RegCallSeq(c, th)
    \/ \E c \in Threads : RegScan(c) \/ RegLock(c) \/ RegRecheck(c) \/ RegCount(c) \/ RegWrite(c)
    \/ \E c \in Threads, p \in PoolPorts : UnregCallSeq(c, p)
    \/ \E c \in Threads : UnregScan(c) \/ UnregWrite(c)
    \/ \E t \in Threads : PmCallSeq(t) \/ PmScan(t) \/ PmIter(t)

SpecPoolSeq == InitFirst /\ [][NextPoolSeq]_vars

\* regPort calls that run at the same time, with no unregPort beside them
RegCallPar(c, th) == (\A u \in Threads : qp.call[u].op # "unreg") /\ RegCall(c, th)

NextPoolReg ==
    \/ \E c \in Threads, th \in Threads : RegCallPar(c, th)
    \/ \E c \in Threads : RegScan(c) \/ RegLock(c) \/ RegRecheck(c) \/ RegCount(c) \/ RegWrite(c)
    \/ \E c \in Threads, p \in PoolPorts : UnregCallSeq(c, p)
    \/ \E c \in Threads : UnregScan(c) \/ UnregWrite(c)

SpecPoolReg == InitFirst /\ [][NextPoolReg]_vars

SpecTable == InitFirst /\ [][NextTable]_vars

Spec == InitFirst /\ [][Next]_vars

\* the first definition, with sends of either mode
NextQueue == Next \/ \E t \in Threads : SendQueue(t)

SpecQueue == InitFirst /\ [][NextQueue]_vars

\* Async::call(caller, func, target) made by thread t
AsyncCall(t, caller, target) ==
    /\ Idle(t)
    /\ ncalls < MaxOps
    /\ Len(async.calls) < MaxCalls
    /\ ncalls' = ncalls + 1
    /\ caller # NoSub => alive[caller]
    /\ \E w \in {callQueue(World, t, caller, Len(async.calls) + 1, target)} :
          /\ WithinBounds(w)
          /\ Commit([w EXCEPT !.async.calls =
                        Append(@, [caller |-> caller, from |-> t, to |-> target, body |-> FALSE])])
    /\ UNCHANGED <<tt, qp, impl, conf, promise, copies, pass, pump, sends>>

\* the calls of Async, the destruction of callers, and the pump
NextAsync ==
    \/ \E t \in Threads, caller \in Subs \cup {NoSub}, target \in Threads :
           AsyncCall(t, caller, target)
    \/ \E t \in Threads, s \in Subs : Destroy(t, s)
    \/ \E t \in Threads : PumpBegin(t)
    \/ \E t \in Threads : PumpStep(t)
    \/ \E t \in Threads : PumpEnd(t)

SpecAsync == InitFirst /\ [][NextAsync]_vars

\* a Promise over the second definition of ChannelImpl, whose onReceive takes
\* the two arguments onResolve passes: its construction, its handlers, other
\* calls of Async on the same threads, and the pump
InitSecond == Init /\ impl = 2

NextPromise ==
    \/ \E t \in Threads, type \in PromiseTypes : MakePromise(t, type)
    \/ \E t \in Threads, s \in Subs \cup {NoSub} : OnResolve(t, s, "rec")
    \/ \E t \in Threads, target \in Threads : AsyncCall(t, NoSub, target)
    \/ \E t \in Threads : PassStep(t)
    \/ \E t \in Threads : PassEnd(t)
    \/ \E t \in Threads : PumpBegin(t)
    \/ \E t \in Threads : PumpStep(t)
    \/ \E t \in Threads : PumpEnd(t)

SpecPromise == InitSecond /\ [][NextPromise]_vars

\* closeCh of a Channel, a ChannelImpl of the first definition: the calls of
\* onClose and close, and the pump
NextClose ==
    \/ \E t \in Threads, s \in Subs \cup {NoSub}, m \in Modes : OnClose(t, s, "rec", m)
    \/ \E t \in Threads : Close(t)
    \/ \E t \in Threads : PassStep(t)
    \/ \E t \in Threads : PassEnd(t)
    \/ \E t \in Threads : PumpBegin(t)
    \/ \E t \in Threads : PumpStep(t)
    \/ \E t \in Threads : PumpEnd(t)

SpecClose == InitFirst /\ [][NextClose]_vars

\* ---------------------------------------------- the end of the channel
\* the ChannelImpl is there until its destructor has run
Live == "destroyed" \notin asserts

\* the subscriber had a record in a table when the channel was destroyed
BoundAtEnd(s) == \E r \in 1..Len(recs) : recs[r].freed /\ recs[r].receiver = s

\* the last Channel handle goes while no thread is inside the channel:
\* ~ChannelImpl. "staged" remembers that a bound record was in pendingToAdd
DestroyChannel(t) ==
    /\ Live
    /\ \A u \in Threads : Idle(u)
    /\ \E w \in {ChannelImpl_dtor(World)} :
          Commit([w EXCEPT !.asserts =
                     @ \cup {"destroyed"}
                       \cup (IF \E i \in DOMAIN tables : \E k \in DOMAIN tables[i].pendingToAdd :
                                    recs[tables[i].pendingToAdd[k]].receiver # NoSub
                              THEN {"staged"} ELSE {})])
    /\ UNCHANGED <<tt, qp, impl, conf, promise, copies, pass, pump, sends, ncalls>>

\* ~Asyncable of a subscriber that outlives the channel: a connection entry it
\* still holds makes it call disconnectAsyncable on the destroyed ChannelImpl
DestroyLater(t, s) ==
    /\ ~Live
    /\ alive[s]
    /\ alive' = [alive EXCEPT ![s] = FALSE]
    /\ conn' = [conn EXCEPT ![s] = NoThread]
    /\ asserts' = asserts \cup (IF conn[s] # NoThread THEN {"use after free"} ELSE {})
                          \cup (IF BoundAtEnd(s) THEN {"outlived"} ELSE {})
    /\ UNCHANGED <<tt, qp, impl, conf, promise, copies, async, recs, tables, count, unsub,
                   pool, dch, got, pass, pump, sends, ncalls>>

NextDtor ==
    \/ Live /\ \E reg \in Registrations, m \in Modes :
                  OnReceive(reg[1], reg[2], reg[3], m)
    \/ Live /\ \E t \in Threads, s \in Subs : Disconnect(t, s)
    \/ Live /\ \E t \in Threads, s \in Subs : Destroy(t, s)
    \/ Live /\ \E t \in Threads : SendBegin(t)
    \/ Live /\ \E t \in Threads : PassStep(t)
    \/ Live /\ \E t \in Threads : PassEnd(t)
    \/ Live /\ \E t \in Threads : PumpBegin(t)
    \/ Live /\ \E t \in Threads : PumpStep(t)
    \/ Live /\ \E t \in Threads : PumpEnd(t)
    \/ \E t \in Threads : DestroyChannel(t)
    \/ \E t \in Threads, s \in Subs : DestroyLater(t, s)

SpecDtor == InitFirst /\ [][NextDtor]_vars

\* the first definition, with a subscriber on A whose callback sends on the
\* channel
NextReentrant ==
    \/ Next
    \/ \E m \in Modes : OnReceive("A", "s2", "send", m)
    \/ \E t \in Threads : ReentrantStep(t)

SpecReentrant == InitFirst /\ [][NextReentrant]_vars

\* the first definition, with a subscriber on A whose callback registers,
\* disconnects and registers again the other subscriber
NextFlip ==
    \/ Next
    \/ \E m \in Modes : OnReceive("A", "s2", "flip", m)

SpecFlip == InitFirst /\ [][NextFlip]_vars

\* the first definition, with copies of the Channel object
NextCopies == Next \/ CopyChannel

SpecCopies == InitFirst /\ [][NextCopies]_vars

\* either definition
SpecBoth == Init /\ [][Next]_vars

\* a thread that is in processMessages or in a pass goes on, and a thread that
\* has messages waiting calls processMessages again
Run(t) == PumpBegin(t) \/ PumpStep(t) \/ PumpEnd(t) \/ PassStep(t) \/ PassEnd(t)

Fairness == \A t \in Threads : WF_vars(Run(t))

FairSpec == Spec /\ Fairness

FairAsync == SpecAsync /\ Fairness

FairPromise == SpecPromise /\ Fairness

FairBoth == SpecBoth /\ Fairness

\* ------------------------------------------------------------------ claims
\* how often record r was invoked with value v
Invoked(g, r, v) == Occurrences(g[r], LAMBDA e : e.val = v)

\* the messages with value v that wait in the queue from S to T
Queued(ts, S, T, v) ==
    LET si == TIdx(ts, S)
        qi == IF si = 0 THEN 0
              ELSE FirstIdx(ts[si].queues, LAMBDA qd : qd.receiveTh = T)
    IN IF qi = 0 THEN 0
       ELSE Occurrences(ts[si].queues[qi].q, LAMBDA m : m.kind = "call" /\ m.val = v)

\* this step is the return of the send that thread t is in
SendReturns(t) == pass[t].active /\ pass[t].kind = "send" /\ ~pass'[t].active

\* every other table of the channel has got exactly one message of the send
OneMessageEach(t, v) ==
    \A i \in 1..Len(tables') :
        tables'[i].threadId # t => Queued(tables', t, tables'[i].threadId, v) = 1

\* C1, as stated: when an Auto send made with at least one enabled receiver
\* returns, every receiver that was enabled in the sender's table at the start
\* of the send has been invoked exactly once with the value, and every other
\* table of the channel has got exactly one message with it.
C1_Original ==
    [][\A t \in Threads : SendReturns(t) =>
          LET v == pass[t].msg.val
          IN /\ \A r \in sends[v].start : Invoked(got', r, v) = 1
             /\ OneMessageEach(t, v)]_vars

\* C1, amended: when the send returns, every receiver that was enabled in the
\* sender's table at the start of the send has been invoked exactly once with
\* the value, or not at all if a callback of the same pass disconnected it
\* before its turn (it is then no longer enabled); and every other table of
\* the channel has got exactly one message with it.
C1_Amended ==
    [][\A t \in Threads : SendReturns(t) =>
          LET v == pass[t].msg.val
          IN /\ \A r \in sends[v].start :
                    \/ Invoked(got', r, v) = 1
                    \/ Invoked(got', r, v) = 0 /\ ~recs'[r].enabled
             /\ OneMessageEach(t, v)]_vars

\* a send has returned that invoked one receiver of the sender's table,
\* skipped another that a callback had disconnected, and left its message in
\* the queue to another thread
C1_Witness ==
    \E v \in 1..Len(sends) :
        /\ sends[v].done /\ sends[v].connected
        /\ \E r \in sends[v].start : Invoked(got, r, v) = 1
        /\ \E r \in sends[v].start : Invoked(got, r, v) = 0 /\ ~recs[r].enabled
        /\ \E T \in Threads : T # sends[v].th /\ Queued(tables, sends[v].th, T, v) = 1

\* send v has returned, and receiver r, of another thread than the sender's,
\* was enabled when it was made
Owed(v, r) ==
    /\ v <= Len(sends)
    /\ sends[v].done
    /\ r \in sends[v].all
    /\ recs[r].th # sends[v].th

\* receiver r has been invoked with value v, or it is not enabled any more
Settled(v, r) == r <= Len(recs) /\ (Invoked(got, r, v) = 1 \/ ~recs[r].enabled)

\* C2: if a thread R has an enabled receiver and another thread S sends a value
\* once, then, R calling processEvents again and again and the receiver not
\* being disconnected, the receiver's callback is eventually invoked with the
\* value, and it is invoked with it once only.
C2_Delivered ==
    /\ <>[](\A v \in 1..MaxSends, r \in 1..MaxRecs : Owed(v, r) => Settled(v, r))
    /\ [](\A v \in 1..Len(sends), r \in 1..Len(recs) : Invoked(got, r, v) <= 1)

\* a receiver that is still enabled has been invoked with a value another
\* thread sent
C2_Witness ==
    \E v \in 1..Len(sends), r \in 1..Len(recs) :
        Owed(v, r) /\ recs[r].enabled /\ Invoked(got, r, v) = 1 /\ got[r][1].th # sends[v].th

\* C3: a callback is only ever invoked on the thread that called onReceive
\* for it, for an inline send as for a message from another thread.
C3_OnRegistrationThread ==
    \A r \in 1..Len(recs) : \A i \in 1..Len(got[r]) : got[r][i].th = recs[r].th

\* a receiver has been invoked with a value that another thread sent
C3_Witness ==
    \E r \in 1..Len(recs) : \E i \in 1..Len(got[r]) :
        got[r][i].th = recs[r].th /\ sends[got[r][i].val].th # recs[r].th

\* C4: a receiver on thread R that receives two values of the same other
\* thread S receives them in the order in which S sent them.
C4_Fifo ==
    \A r \in 1..Len(recs) : \A i, j \in 1..Len(got[r]) :
        (/\ i < j
         /\ sends[got[r][i].val].th = sends[got[r][j].val].th
         /\ sends[got[r][i].val].th # recs[r].th)
        => got[r][i].val < got[r][j].val

\* a receiver has received two values of the same other thread
C4_Witness ==
    \E r \in 1..Len(recs) :
        /\ Len(got[r]) = 2
        /\ got[r][1].val # got[r][2].val
        /\ sends[got[r][1].val].th = sends[got[r][2].val].th
        /\ sends[got[r][1].val].th # recs[r].th

\* C5, as stated: once the destructor of a subscriber has returned, whichever
\* thread ran it and whether or not a dispatch was in progress, no callback
\* bound to the subscriber is invoked any more, and if the subscriber was the
\* only receiver of the channel, isConnected() is false.
C5_NoCallAfterDestroy ==
    /\ \A r \in 1..Len(recs) : \A i \in 1..Len(got[r]) : ~got[r][i].dead
    /\ \A s \in Subs :
           (~alive[s] /\ \A r \in 1..Len(recs) : recs[r].enabled => recs[r].sub = s)
           => ~isConnected(World)

\* the callbacks that reset their own subscriber: the invocations of record r
\* as one of them, its subscriber alive and not disconnected by anyone before
\* a dispatch on the record's thread can reach r and invoke its callback
Callable(w, r) ==
    /\ w.recs[r].enabled
    /\ \E i \in 1..Len(w.tables) :
           r \in Range(w.tables[i].receivers) \cup Range(w.tables[i].pendingToAdd)

ResetCalls(r) ==
    Occurrences(got[r], LAMBDA e : e.f = "reset" /\ ~e.dead /\ e.unsub = "no")

\* C6, as stated: a callback that calls resetOnReceive for its own subscriber
\* during its first invocation is invoked once in total: the first send on the
\* thread invokes it, after which no dispatch can reach the receiver, and no
\* later send invokes it again.  (For subscribers that never had two enabled receivers at
\* a time.)
C6_ResetInCallback ==
    asserts \cap {"out of bounds", "bound twice"} = {} =>
        /\ \A r \in 1..Len(recs) :
               /\ ResetCalls(r) <= 1
               /\ ResetCalls(r) = 1 => ~Callable(World, r)
        /\ \A v \in 1..Len(sends) : \A r \in sends[v].start :
               (sends[v].done /\ recs[r].callback = "reset")
               => (Invoked(got, r, v) = 1 \/ ~Callable(World, r))

\* what a caller can observe of the subscriptions: isConnected(), and the
\* receivers a dispatch can reach
Observed(w) ==
    [connected |-> isConnected(w),
     count |-> w.count,
     callable |-> {r \in 1..Len(w.recs) : Callable(w, r)}]

\* s has never subscribed, or nothing is left of its subscriptions
Unbound(s) ==
    /\ alive[s]
    /\ conn[s] = NoThread
    /\ \A r \in 1..Len(recs) : Callable(World, r) => recs[r].sub # s

\* C7: on one thread, onReceive(s, f) followed by disconnect(s) leaves the
\* channel as if s had never subscribed: isConnected() is what it was, no
\* dispatch can reach f, and s holds no connection entry for the channel.
C7_RoundTrip ==
    \A t \in Threads, s \in Subs, f \in Callbacks, mode \in Modes :
        Unbound(s) =>
            LET w2 == With(ApiOnReceive(World, t, s, f, mode),
                           LAMBDA w1 : ApiDisconnect(w1, t, s))
            IN /\ Observed(w2) = Observed(World)
               /\ w2.conn[s] = NoThread

\* a subscriber has been bound and disconnected on one thread, and a send made
\* after that has not invoked its callback
C7_Witness ==
    \E r \in 1..Len(recs) :
        /\ recs[r].sub # NoSub
        /\ ~recs[r].enabled
        /\ got[r] = <<>>
        /\ unsub[recs[r].sub] = "own"
        /\ conn[recs[r].sub] = NoThread
        /\ \E v \in 1..Len(sends) : sends[v].done /\ sends[v].th = recs[r].th

\* C8, as stated: disconnect(s) twice in a row, outside a dispatch, inside a
\* dispatch pass or from another thread than the registration thread, leaves
\* the enabled count and the receivers a dispatch can reach as one disconnect(s)
\* does.
C8_Idempotent ==
    \A t \in Threads, s \in Subs :
        alive[s] =>
            LET once == ApiDisconnect(World, t, s)
            IN Observed(With(once, LAMBDA w1 : ApiDisconnect(w1, t, s))) = Observed(once)

\* C9: a receiver registered by a callback during a dispatch pass is not
\* invoked with the value of that pass, is in the live list once the pass has
\* ended, and is invoked by every later send on the thread that finds it
\* enabled (unless it is disconnected before its turn).
C9_BornInPass ==
    asserts \cap {"out of bounds"} = {} =>
        \A r \in 1..Len(recs) :
            recs[r].born # 0 =>
                /\ Invoked(got, r, recs[r].born) = 0
                /\ LET td == tables[TIdx(tables, recs[r].th)]
                   IN r \in Range(td.pendingToAdd)
                      => pass[recs[r].th].active /\ pass[recs[r].th].msg.val = recs[r].born
                /\ \A v \in 1..Len(sends) :
                       (r \in sends[v].start /\ sends[v].done)
                       => (Invoked(got, r, v) = 1 \/ ~recs[r].enabled)

\* a receiver registered by a callback has been invoked by the next send
C9_Witness ==
    \E r \in 1..Len(recs) :
        /\ recs[r].born # 0
        /\ recs[r].enabled
        /\ \E v \in 1..Len(sends) : v # recs[r].born /\ Invoked(got, r, v) = 1

\* C10, as stated: after resetOnReceive(r1) on r1's registration thread no
\* dispatch reaches r1's callback any more, every other receiver is as it was,
\* and isConnected() stays true while one of them is enabled.  (For subscribers
\* that never had two enabled receivers at a time.)
C10_Frame ==
    asserts \cap {"out of bounds", "bound twice"} = {} =>
        /\ \A r \in 1..Len(recs) : \A i \in 1..Len(got[r]) : got[r][i].unsub # "own"
        /\ \A s \in Subs :
               (alive[s] /\ unsub[s] = "own")
               => \A r \in 1..Len(recs) : ~(Callable(World, r) /\ recs[r].receiver = s)
        /\ \A s \in Subs :
               (alive[s] /\ conn[s] # NoThread
                         /\ \E r \in 1..Len(recs) : Callable(World, r) /\ recs[r].receiver = s) =>
                   LET w1 == ApiDisconnect(World, conn[s], s)
                   IN /\ \A r \in 1..Len(recs) : ~(Callable(w1, r) /\ w1.recs[r].receiver = s)
                      /\ \A r \in 1..Len(recs) :
                           recs[r].sub # s
                           => w1.recs[r] = recs[r] /\ (Callable(w1, r) <=> Callable(World, r))
                      /\ (isConnected(World) /\ \E r \in 1..Len(recs) :
                                                   Callable(World, r) /\ recs[r].sub # s)
                         => isConnected(w1)

\* the records a dispatch can reach: enabled, in a live list or in pendingToAdd
EnabledRecords(w) == {r \in 1..Len(w.recs) : Callable(w, r)}

\* C11, as stated: in every reachable state the enabled-receiver counter is the
\* number of records whose enabled flag is true, over all thread tables and
\* pendingToAdd; so isConnected() is true exactly when an enabled record exists.
C11_CountIsEnabled ==
    /\ count = Cardinality(EnabledRecords(World))
    /\ isConnected(World) <=> EnabledRecords(World) # {}

\* C12, as stated: the enabled-receiver counter is never negative, and none of
\* the assertions m_enabledReceiversCount >= 0 fails.
C12_CountNotNegative ==
    /\ count >= 0
    /\ "count" \notin asserts

\* the enabled records bound to subscriber s
RecordsOf(w, s) == {r \in EnabledRecords(w) : w.recs[r].receiver = s}

\* C13, as stated: an enabled record with subscriber s exists exactly when s
\* holds a connection entry for the channel, and the entry is tagged with the
\* registration thread of the record.
C13_CrossLink ==
    \A s \in Subs :
        /\ RecordsOf(World, s) # {} <=> conn[s] # NoThread
        /\ \A r \in RecordsOf(World, s) : conn[s] = recs[r].th

\* C14: a send on a channel whose enabled-receiver count is 0 invokes no
\* callback, enqueues no message and leaves the thread tables, the queues and
\* the QueuePool as they are; it has returned when the step is over.
C14_SendUnconnected ==
    [][(Len(sends') = Len(sends) + 1 /\ count = 0)
       => /\ UNCHANGED <<recs, tables, count, conn, alive, pool, dch, got, pass, asserts>>
          /\ sends'[Len(sends')].done]_vars

\* a send has been made on a channel that had tables and records, none enabled
C14_Witness ==
    \E v \in 1..Len(sends) :
        /\ ~sends[v].connected /\ sends[v].done
        /\ sends[v].all = {}
        /\ recs # <<>> /\ tables # <<>>
        /\ count = 0 /\ got = [r \in 1..Len(recs) |-> <<>>]

\* this step is a Queue-mode send of thread t, made on a connected channel
QueueSendBy(t) ==
    /\ Len(sends') = Len(sends) + 1
    /\ sends'[Len(sends')].mode = "queue"
    /\ sends'[Len(sends')].th = t
    /\ sends'[Len(sends')].connected

\* C15: a Queue-mode send invokes no callback before it returns and leaves
\* exactly one message in the queue to every thread table of the channel, the
\* sender's included; a receiver gets the value of a Queue-mode send only from
\* a message that processMessages of its own thread handles.
C15_QueueSend ==
    [][/\ \A t \in Threads :
              QueueSendBy(t)
              => /\ got' = got
                 /\ ~pass'[t].active
                 /\ \E i \in 1..Len(tables') : tables'[i].threadId = t
                 /\ \A i \in 1..Len(tables') :
                        Queued(tables', t, tables'[i].threadId, Len(sends')) = 1
       /\ \A r \in 1..Len(got) :
              (Len(got'[r]) > Len(got[r]) /\ sends[got'[r][Len(got'[r])].val].mode = "queue")
              => /\ pump[recs[r].th].active
                 /\ pass[recs[r].th].kind = "msg"]_vars

\* a receiver on the sender's own thread has been invoked with the value of a
\* Queue-mode send
C15_Witness ==
    \E v \in 1..Len(sends) : \E r \in 1..Len(recs) :
        /\ sends[v].mode = "queue"
        /\ recs[r].th = sends[v].th
        /\ Invoked(got, r, v) = 1

\* isConnected() called on the Channel object h
IsConnectedVia(h) == IF copies[h] = MainData THEN isConnected(World) ELSE FALSE

\* C16: all copies of a Channel alias one dispatch object: isConnected() is the
\* same on every copy, and a send made through any copy invokes the receivers
\* that were enabled on the sender's thread when it started, through whichever
\* copy they were registered (unless they are disconnected before their turn).
C16_CopiesAlias ==
    /\ \A h \in 1..Len(copies) : copies[h] = copies[1]
    /\ \A h1, h2 \in 1..Len(copies) : IsConnectedVia(h1) = IsConnectedVia(h2)
    /\ \A v \in 1..Len(sends) : \A r \in sends[v].start :
           sends[v].done => (Invoked(got, r, v) = 1 \/ ~Callable(World, r))

\* a receiver registered through one copy has been invoked by a send made
\* through another copy
C16_Witness ==
    \E v \in 1..Len(sends) : \E r \in 1..Len(recs) :
        /\ recs[r].via # 0
        /\ sends[v].via # recs[r].via
        /\ Invoked(got, r, v) = 1
        /\ \A h \in 1..Len(copies) : isConnected(World) <=> IsConnectedVia(h)

\* C17, as stated: onReceive(s, g, AsyncSet) through the Channel interface,
\* when s has a callback bound on the channel and the thread, replaces it by g:
\* there is still one record for s, the enabled count is what it was, and the
\* record that the next send invokes holds g.
C17_AsyncSetReplaces ==
    \A s \in Subs, how \in Overloads, g \in Callbacks :
        (alive[s] /\ conn[s] # NoThread /\ RecordsOf(World, s) # {}
                  /\ \A r \in RecordsOf(World, s) : recs[r].th = conn[s]) =>
            LET w1 == Channel_onReceive(World, how, conn[s], s, g, AsyncSet)
            IN /\ Len(w1.recs) = Len(recs)
               /\ w1.count = count
               /\ RecordsOf(w1, s) = RecordsOf(World, s)
               /\ \A r \in RecordsOf(w1, s) : w1.recs[r].callback = g

\* s has a callback bound on the channel, on its registration thread
Bound(s) ==
    /\ alive[s]
    /\ conn[s] # NoThread
    /\ RecordsOf(World, s) # {}
    /\ \A r \in RecordsOf(World, s) : recs[r].th = conn[s]

Ran(c) == Occurrences(async.ran, LAMBDA e : e.call = c)

\* the caller of call c has been destroyed
CallerDead(c) == async.calls[c].caller # NoSub /\ ~alive[async.calls[c].caller]

\* C19: Async::call never runs the function inside the call; the function runs
\* at most once, on the target thread, inside processMessages of that thread;
\* and when the threads keep pumping it does run, also when the target is the
\* calling thread, unless its caller is destroyed before.
C19_CallOnce ==
    /\ [][/\ Len(async.calls') > Len(async.calls) => async.ran' = async.ran
          /\ async.ran' # async.ran
             => /\ Len(async.ran') = Len(async.ran) + 1
                /\ pump'[async.ran'[Len(async.ran')].th].active]_vars
    /\ [](\A i \in 1..Len(async.ran) :
              /\ async.ran[i].th = async.calls[async.ran[i].call].to
              /\ Ran(async.ran[i].call) = 1)
    /\ <>[](\A c \in 1..MaxCalls :
              c <= Len(async.calls) => (Ran(c) = 1 \/ CallerDead(c)))

\* a call whose target is the calling thread has run, with a caller that is alive
C19_Witness ==
    \E c \in 1..Len(async.calls) :
        /\ async.calls[c].from = async.calls[c].to
        /\ async.calls[c].caller # NoSub
        /\ ~CallerDead(c)
        /\ Ran(c) = 1

\* C20: a function whose caller is destroyed before the target thread takes its
\* message is never run: the message is dropped; the message of a call whose
\* caller is null or alive runs its function when the target thread takes it.
C20_DroppedWhenCallerDead ==
    /\ [](\A i \in 1..Len(async.ran) : ~async.ran[i].dead)
    /\ [][\A i \in 1..Len(async.queues) :
              (async.queues[i].q # <<>> /\ async.queues'[i].q = Tail(async.queues[i].q))
              => LET m == Head(async.queues[i].q)
                 IN IF m.sub = NoSub \/ alive[m.sub]
                    THEN /\ Len(async.ran') = Len(async.ran) + 1
                         /\ async.ran'[Len(async.ran')].call = m.val
                    ELSE async.ran' = async.ran]_vars

\* of two calls posted on the same pair of threads the one whose caller was
\* destroyed has been dropped and the other has run
C20_Witness ==
    \E c1, c2 \in 1..Len(async.calls) :
        /\ async.calls[c1].from = async.calls[c2].from
        /\ async.calls[c1].to = async.calls[c2].to
        /\ CallerDead(c1) /\ Ran(c1) = 0
        /\ ~CallerDead(c2) /\ Ran(c2) = 1
        /\ \A i \in 1..Len(async.queues) : async.queues[i].q = <<>>


\* record r belongs to a subscriber whose callback resets its own subscription
SelfReset(r) == recs[r].callback = "reset" /\ recs[r].sub # NoSub

\* how often the resetting callback of record r ran while its subscriber was
\* alive and no other thread had disconnected it
LiveCall(e) == e.f = "reset" /\ ~e.dead /\ e.unsub # "other"

LiveCalls(r) == Occurrences(got[r], LiveCall)

\* send v came from another thread than the one of record r and found r enabled
SentTo(v, r) == r \in sends[v].all /\ sends[v].th # recs[r].th /\ sends[v].connected

C22_NotLatched ==
    /\ \A r \in promise.late : got[r] = <<>>
    /\ \A r \in 1..Len(recs) : Len(got[r]) <= 1
    /\ Resolved => \A r \in sends[1].start : Invoked(got, r, 1) = 1

\* the body has run once, on the constructing thread, in the constructor or in
\* processMessages
BodyAt(where) == promise.body = <<[th |-> promise.th, in |-> where]>>

\* C23: the construction mode fixes when the body runs.  With AsyncByPromise
\* the body has not run when the constructor returns, it runs once, in a later
\* processMessages of the constructing thread, and it does run if that thread
\* keeps pumping; the handlers attached on that thread before have been
\* invoked with the value when resolve returns.  With AsyncByBody the body has
\* run once, in the constructor, when the constructor returns.
C23_BodyTiming ==
    /\ [](promise.type = "AsyncByBody" => BodyAt("ctor"))
    /\ [](promise.type = "AsyncByPromise" => (promise.body = <<>> \/ BodyAt("pump")))
    /\ [][(promise.type = "none" /\ promise'.type = "AsyncByPromise")
            => (promise'.body = <<>> /\ sends' = <<>>)]_vars
    /\ (promise.type = "AsyncByPromise") ~> BodyAt("pump")
    /\ []((promise.type = "AsyncByPromise" /\ Resolved)
            => \A r \in sends[1].start : Invoked(got, r, 1) = 1)

\* an AsyncByPromise promise whose body ran in processMessages of the
\* constructing thread, and a handler attached after the construction that has
\* got the value
C23_Witness ==
    /\ promise.type = "AsyncByPromise"
    /\ BodyAt("pump")
    /\ Resolved
    /\ \E r \in sends[1].start : recs[r].th = promise.th /\ Invoked(got, r, 1) = 1

\* C24, as stated: whatever close() calls are made on a channel, a receiver
\* registered through onClose fires once in total, never a second time.
C24_FiresOnce == \A r \in 1..Len(recs) : Len(got[r]) <= 1

\* the records that are linked in table i
LinkedIn(i) == Range(tables[i].receivers) \cup Range(tables[i].pendingToAdd)

\* the receiving port of the queue from thread S to thread T is in the pool
Registered(S, T) ==
    \E sl \in 1..Len(pool) :
        pool[sl].threadId = T /\ Port("main", S, T, 2) \in Range(pool[sl].ports)

\* C25, as stated: the program never goes on past an exhausted slot array:
\* no record is linked in a table that is not the slot of its own thread (the
\* table that threads without a slot share), and no registration is dropped:
\* the receiving port of every queue a message was put in is in the QueuePool.
C25_ExhaustionFatal ==
    /\ \A i \in 1..Len(tables) : \A r \in LinkedIn(i) : tables[i].threadId = recs[r].th
    /\ \A v \in 1..Len(sends), T \in Threads :
          Queued(tables, sends[v].th, T, v) > 0 => Registered(sends[v].th, T)

\* C26, as stated: when a thread other than the registration thread of s has
\* called disconnect(s), or destroyed s, the record of s is disabled and the
\* enabled count is one less when the call returns, before the registration
\* thread has pumped: isConnected() and the early exit of send see the removal.
C26_DisabledOnReturn ==
    [][\A s \in Subs :
          (unsub[s] = "no" /\ unsub'[s] = "other" /\ Cardinality(RecordsOf(World, s)) = 1)
             => /\ \A r \in RecordsOf(World, s) : ~recs'[r].enabled
                /\ count' = count - 1]_vars

\* record r belongs to a subscriber that a thread other than its registration
\* thread has disconnected (the subscriber is alive), and is still in the table
CrossDisconnected(r) ==
    /\ r <= Len(recs)
    /\ recs[r].sub # NoSub
    /\ unsub[recs[r].sub] = "other"
    /\ alive[recs[r].sub]
    /\ ~recs[r].freed

\* C27, as stated: after disconnect(s) was called on a thread other than the
\* registration thread R of s, R calling processMessages again and again, the
\* record of s is eventually removed from the table of R and freed: the
\* disconnect message does not go round for ever.
C27_CrossDisconnectLive ==
    \A r \in 1..MaxRecs : CrossDisconnected(r) ~> (r <= Len(recs) /\ recs[r].freed)

C29_ListStableInPass ==
    [][\A t \in Threads :
          (pass[t].active /\ pass'[t].active)
             => LET ti == LoopTable(tables, t)
                IN /\ tables'[ti].receivers = tables[ti].receivers
                   /\ \A r \in Range(tables[ti].receivers) : recs'[r].freed = recs[r].freed]_vars

\* the callback that ran in the pass of thread t, during a send of t, made the
\* three calls for subscriber s, which was not connected before: q is the
\* record of the last call
Flipped(t, s, q) ==
    /\ pass[t].active /\ pass[t].kind = "send"
    /\ q \in 1..Len(recs)
    /\ recs[q].sub = s /\ recs[q].th = t /\ recs[q].callback = "f2"
    /\ recs[q].born = pass[t].msg.val
    /\ \A r \in sends[pass[t].msg.val].all : recs[r].sub # s
    /\ unsub[s] # "other"

\* the records of subscriber s that the table of thread t holds
Held(ws, T, t, s) ==
    LET td == T[TIdx(T, t)]
    IN {r \in Range(td.receivers) \cup Range(td.pendingToAdd) : ws[r].sub = s}

\* C30, as stated: when a callback has called onReceive(s, f1), disconnect(s)
\* and onReceive(s, f2) in one pass, then at the end of the pass s is connected
\* with exactly one enabled record, whose callback is f2, the count of enabled
\* receivers is one more than when the pass began, and the table holds no
\* disabled record of s; f1 is never called, and a later send calls f2 once.
C30_LastOnReceiveWins ==
    /\ [][\A t \in Threads, s \in Subs, q \in 1..MaxFlipRecs :
             (Flipped(t, s, q) /\ ~pass'[t].active)
                => /\ conn'[s] = t
                   /\ {r \in 1..Len(recs') : recs'[r].sub = s /\ recs'[r].enabled} = {q}
                   /\ (\A r \in sends[pass[t].msg.val].all : recs'[r].enabled)
                         => count' = Cardinality(sends[pass[t].msg.val].all) + 1
                   /\ \A r \in Held(recs', tables', t, s) : recs'[r].enabled]_vars
    /\ [](\A r \in 1..Len(recs) :
             /\ recs[r].callback = "f1" => got[r] = <<>>
             /\ recs[r].callback = "f2" =>
                   \A v \in 1..Len(sends) : Occurrences(got[r], LAMBDA e : e.val = v) <= 1)

\* thread t is in the loop of processMessages over the ports of slot k, with
\* a port still to come
Iterating(t, k) ==
    /\ qp.call[t].op = "pm" /\ qp.call[t].pc = "iter" /\ qp.call[t].i = k
    /\ qp.call[t].j <= Len(qp.slots[k].ports)

\* the next statement of thread u writes the port list or the threadId of slot k
Modifying(u, k) ==
    /\ qp.call[u].pc \in {"setid", "push", "erase"} /\ qp.call[u].i = k

\* C31, as stated: the locked flag of a slot keeps its port list from being
\* changed while it is drained: in no reachable state is one thread in the
\* loop of processMessages over the ports of a slot while regPort or unregPort
\* on another thread is writing the port list or the threadId of that slot.
C31_LockedSerialises ==
    \A t \in Threads, u \in Threads, k \in 1..PoolSlots :
        t # u => ~(Iterating(t, k) /\ Modifying(u, k))

\* the ports that the slots of thread t hold
PortsUnder(t) ==
    UNION {Range(qp.slots[k].ports) : k \in {i \in 1..PoolSlots : qp.slots[i].threadId = t}}

\* C32, as stated: after any sequence of regPort and unregPort calls, a
\* processMessages of thread t that ran with no other call beside it, and found
\* the slot of t unlocked, has called process() exactly once on every port
\* registered under t and on no other port.
C32_PumpsEveryPort ==
    \A t \in Threads :
        (qp.last[t].ran /\ qp.last[t].quiet /\ ~qp.last[t].locked)
           => /\ Range(qp.last[t].seen) = qp.last[t].under
              /\ Len(qp.last[t].seen) = Cardinality(qp.last[t].under)

\* C33, as stated: when regPort(th, port) has returned, whatever other
\* regPort calls ran beside it, the port is in the port list of a slot whose
\* threadId is th, and in the list of no slot of another thread.
C33_RegPortPostcondition ==
    \A p \in PoolPorts :
        qp.owner[p] \in Threads
           => /\ p \in PortsUnder(qp.owner[p])
              /\ \A t \in Threads \ {qp.owner[p]} : p \notin PortsUnder(t)

\* C34, as stated: in every interleaving of first registrations, no thread
\* in regPort locks the pool mutex while it holds it, and none is left blocked.
C34_RegPortTerminates ==
    /\ "relock" \notin qp.flags
    /\ \A c \in Threads : qp.call[c].pc # "stuck"

\* C35, as stated: a processMessages call that began after unregPort(th, port)
\* had returned does not call process() on that port.
C35_NoProcessAfterUnreg ==
    \A t \in Threads :
        qp.call[t].op = "pm" => Range(qp.call[t].seen) \cap qp.call[t].gone = {}

\* C36: once ~ChannelImpl has run, no subscriber holds a connection entry for
\* the channel, whether its record was in the live list or staged in
\* pendingToAdd, and no subscriber destroyed afterwards has called
\* disconnectAsyncable on the destroyed channel.
C36_DtorSeversBackLinks ==
    ~Live => /\ \A s \in Subs : conn[s] = NoThread
             /\ "use after free" \notin asserts

\* a subscriber with a staged record outlived the channel and was destroyed
C36_Witness ==
    /\ ~Live
    /\ {"staged", "outlived"} \subseteq asserts
    /\ \E s \in Subs : ~alive[s] /\ BoundAtEnd(s)

\* the thread has called onReceive on the channel: every call that registers
\* leaves a record, and records stay in recs
Subscribed(t) == \E r \in 1..Len(recs) : recs[r].th = t

\* a message of the channel waits in a queue whose receiving thread is t
EnqueuedTo(t) ==
    \E i \in DOMAIN tables : \E k \in DOMAIN tables[i].queues :
        tables[i].queues[k].receiveTh = t /\ tables[i].queues[k].q # <<>>

\* C37: the channel has a table only for threads that have called onReceive,
\* and a thread that has never called onReceive never has a message of the
\* channel enqueued to it.
C37_TablesOnlyForSubscribers ==
    /\ \A i \in DOMAIN tables : Subscribed(tables[i].threadId)
    /\ \A t \in Threads : ~Subscribed(t) => ~EnqueuedTo(t)

\* this step ends the receiversCall that thread t ran for a call message it
\* took from a queue
DrainReturns(t) ==
    /\ pass[t].active /\ pass[t].kind = "msg" /\ pass[t].msg.kind = "call"
    /\ ~pass'[t].active

\* the records of the table of thread t
InTable(ts, t) ==
    IF TIdx(ts, t) = 0 THEN {}
    ELSE Range(ts[TIdx(ts, t)].receivers) \cup Range(ts[TIdx(ts, t)].pendingToAdd)

\* C38, as stated: a message taken from a queue is dispatched to exactly the
\* receivers that were enabled in the table of the draining thread when it was
\* taken: each of them is invoked once with it, and no other record of the
\* table is.
C38_Original ==
    [][\A t \in Threads : DrainReturns(t) =>
          LET v == pass[t].msg.val
          IN \A r \in InTable(tables, t) \cup pass[t].start :
                Invoked(got', r, v) = (IF r \in pass[t].start THEN 1 ELSE 0)]_vars

\* C38, amended: each receiver that was enabled in the table when the message
\* was taken is invoked once with it, or not at all if a callback of the same
\* pass disabled it before its turn; no other record of the table is invoked.
\* So a receiver that subscribed on the thread between the send and the drain
\* gets the message, and one that was disabled in between does not.
C38_Amended ==
    [][\A t \in Threads : DrainReturns(t) =>
          LET v == pass[t].msg.val
          IN \A r \in InTable(tables, t) \cup pass[t].start :
                \/ r \in pass[t].start /\ Invoked(got', r, v) = 1
                \/ r \in pass[t].start /\ Invoked(got', r, v) = 0 /\ ~recs'[r].enabled
                \/ r \notin pass[t].start /\ Invoked(got', r, v) = 0]_vars

\* a send from another thread has been drained: a receiver that subscribed
\* after the send got the value, one that was disabled between the send and
\* the drain did not
C38_Witness ==
    \E v \in 1..Len(sends) : \E r1, r2 \in 1..Len(recs) :
        /\ sends[v].done
        /\ recs[r1].th # sends[v].th /\ recs[r2].th = recs[r1].th
        /\ r1 \in sends[v].all /\ ~recs[r1].enabled /\ Invoked(got, r1, v) = 0
        /\ r2 \notin sends[v].all /\ recs[r2].born = 0 /\ Invoked(got, r2, v) = 1
        /\ Queued(tables, sends[v].th, recs[r1].th, v) = 0
        /\ Idle(recs[r1].th)

\* C39: removePending finds every record of pendingToRemove in receivers (its
\* assertion never fails), and so a disabled record is on its way out: any
\* disabled record a table still holds is in pendingToRemove, to be freed by
\* the next removePending. This covers a record that was added and
\* disconnected in the same pass.
C39_RemovePendingFindsAll ==
    /\ "removePending" \notin asserts
    /\ \A i \in DOMAIN tables :
          \A r \in Range(tables[i].receivers) \cup Range(tables[i].pendingToAdd) :
              ~recs[r].enabled => r \in Range(tables[i].pendingToRemove)

\* the slots of the thread table that hold a ThreadData
MadeSlots == {i \in 1..TableSlots : tt.m_threads[i].made}

\* C40: while several threads use the channel for the first time, the non-null
\* slots of m_threads are a prefix of the array; m_thcount never decreases and
\* is the number of non-null slots but for the creations that have stored
\* their ThreadData and not yet counted it; every slot below m_thcount is
\* non-null with the threadId of a thread; no two slots have the same
\* threadId; and no table has two queues for one receiver thread.
C40_ThreadTableInvariant ==
    /\ [](/\ \A i \in MadeSlots : \A j \in 1..(i - 1) : j \in MadeSlots
          /\ tt.m_thcount + Cardinality({c \in Callers : tt.call[c].pc = "count"})
                = Cardinality(MadeSlots)
          /\ \A i \in 1..tt.m_thcount :
                i \in MadeSlots /\ tt.m_threads[i].threadId \in Callers
          /\ \A i, j \in MadeSlots :
                tt.m_threads[i].threadId = tt.m_threads[j].threadId => i = j
          /\ \A i \in MadeSlots : \A k, l \in DOMAIN tt.m_threads[i].queues :
                tt.m_threads[i].queues[k].receiveTh = tt.m_threads[i].queues[l].receiveTh
                   => k = l
          /\ {"null below count", "thread pool exhausted", "dummy"} \cap tt.flags = {})
    /\ [][tt'.m_thcount >= tt.m_thcount]_vars

\* every thread has made its table, two of them at the same time, all calls
\* have returned, and a queue has been used by a second send
C40_Witness ==
    /\ "contended" \in tt.flags
    /\ MadeSlots = 1..TableSlots
    /\ tt.m_thcount = TableSlots
    /\ \A c \in Callers : tt.call[c].op = "idle"
    /\ \E i \in MadeSlots : \E k \in DOMAIN tt.m_threads[i].queues :
          tt.m_threads[i].queues[k].n = 2
====
